---- MODULE Spec2Model ----
(***************************************************************************)
(* State-machine model of the code-evaluation service (scitix/code-        *)
(* evaluator): the dispatcher of app/server.py, the four runners           *)
(* (app/exec_py_code.py, app/exec_py_test.py, app/exec_js.py,              *)
(* app/exec_ts.py), the process killer of app/utils.py, the resource       *)
(* sampler of app/resource_monitor.py and the Python children.             *)
(*                                                                         *)
(* One request is followed from the dispatcher (or from a direct call of   *)
(* a runner function) to its response.  The parent task and the sampler    *)
(* task are coroutines of one event loop and interleave only at awaits;    *)
(* the child is a separate OS process and interleaves everywhere.  What    *)
(* user code does, and what the operating system does with a signal, are   *)
(* inputs chosen with \E at the step that observes them.                   *)
(* Durations are in tenths of a second (3.0 s is 30).                      *)
(***************************************************************************)
EXTENDS Integers, Sequences, FiniteSets, TLC

VARIABLES
    pc,         \* position of the request task (dispatcher + runner)
    sample,     \* the Sample of the request (server.py:64-72)
    via,        \* "dispatcher": POST /evaluations; "direct": runner called as a function
    runner,     \* runner whose body is executing: "none", "py_code", "py_test", "js", "ts"
    timeout,    \* the timeout argument bound in the runner (tenths of a second)
    chosen,     \* runner the dispatcher selected and timeout it passed
    child,      \* OS state of the spawned child process
    handle,     \* parent's process handle: "none", "open", "closed"
    cpc,        \* position of the child's program
    guard,      \* in-child hardening: [installs |-> Nat, restored |-> BOOLEAN]
    compiled,   \* user source compiled / executed inside the child
    caseIdx,    \* test runner child: index of the test case being evaluated
    cres,       \* child's local (ok, msg) before q.put
    q,          \* result channel: sequence of (ok, msg) messages written and not yet read
    qclosed,    \* q.close() was called
    written,    \* number of messages the child wrote to q during its life
    tempDir,    \* the child's temporary directory exists on disk
    tmpFile,    \* the JS/TS temp source file exists on disk
    filePath,   \* JS/TS runner: local file_path is set (not None)
    reason,     \* Python runner: local `reason`
    waitOutcome, \* Python runner: how the wait on q ended ("none" before it ends)
    stats,      \* runner's local `stats`: identity of a ResourceStats object (0: None)
    ret,        \* value the runner returns: [set, arity, ok, msg, stats]
    response,   \* BasicResponse of the endpoint: [set, status, msg, data]
    raised,     \* exception that escaped the request task ("" when none)
    spawned,    \* number of child processes spawned for this request
    signals,    \* signals sent to the child and sampler-stop events, in order
    stopEvent,  \* the asyncio.Event stop_event is set
    spc,        \* sampler task position
    samplerStats, \* identity of the ResourceStats object the sampler updates (0: none)
    nsamples,   \* memory samples the sampler has collected
    committed,  \* the sampler has written its averages into the stats object
    exitInfo,   \* JS/TS child: [code, stdout, stderr] of the exited interpreter
    sol,        \* test child: the module being loaded, until the child moves on
    userCall,   \* code child: primitive the user code called in the exec just run
    performed,  \* primitives that really ran with their original effect
    kcalls,     \* calls of kill_proc begun on the handle
    cmp,        \* stdio comparison under study: [phase, out, exp, res, ...]
    cpuSamples, \* sampler: the list cpu_samples
    memSamples, \* sampler: the list memory_samples
    statsVal,   \* fields of the ResourceStats object the sampler updates
    userFiles,  \* code child: the temp directory holds files the user code created
    ran,        \* test child: the test cases run so far, until the child moves on
    mock        \* the stdin mock under study: its input, the position of its
                \* StringIO, and what each of its methods has returned so far

vars == <<pc, sample, via, runner, timeout, chosen, child, handle, cpc, guard,
          compiled, caseIdx, cres, q, qclosed, written, tempDir, tmpFile,
          filePath, reason, waitOutcome, stats, ret, response, raised, spawned, signals,
          stopEvent, spc, samplerStats, nsamples, committed, exitInfo,
          sol, userCall, performed, kcalls, cmp, cpuSamples, memSamples, statsVal,
          userFiles, ran, mock>>

-----------------------------------------------------------------------------
(* Bounds of the model. *)

MaxCases == 2       \* longest inputs / outputs list of a test
MaxSamples == 2     \* samples after which the sampler takes no further one
MaxTimeout == 15    \* the non-zero sample.timeout tried (1.5 s)
MaxCmpLen == 4      \* longest captured output built from the comparator alphabet
MaxKillCalls == 2   \* calls of kill_proc made on one handle
MaxStdinLen == 3    \* longest input text given to the stdin mock
MaxReads == 3       \* calls that user code makes on the stdin mock

-----------------------------------------------------------------------------
(* Text: Python's str() of the values that are formatted into messages. *)

DigitStr(d) ==
    CASE d = 0 -> "0" [] d = 1 -> "1" [] d = 2 -> "2" [] d = 3 -> "3"
      [] d = 4 -> "4" [] d = 5 -> "5" [] d = 6 -> "6" [] d = 7 -> "7"
      [] d = 8 -> "8" [] d = 9 -> "9"

RECURSIVE NatStr(_)
NatStr(n) == IF n < 10 THEN DigitStr(n) ELSE NatStr(n \div 10) \o DigitStr(n % 10)

IntStr(i) == IF i < 0 THEN "-" \o NatStr(0 - i) ELSE NatStr(i)

\* str() of a float given in tenths: 30 is 3.0 and prints "3.0"
FloatStr(t) == NatStr(t \div 10) \o "." \o DigitStr(t % 10)

StartsWith(s, p) == Len(s) >= Len(p) /\ SubSeq(s, 1, Len(p)) = p

\* str(e) of the exceptions that occur in the model
ExcText(name) ==
    CASE name = "TypeError" -> "execute_code() got an unexpected keyword argument 'memory_limit'"
      [] name = "UnboundLocalError" -> "cannot access local variable 'timeout' where it is not associated with a value"
      [] name = "FileNotFoundError" -> "[Errno 2] No such file or directory"
      [] name = "OSError" -> "[Errno 28] No space left on device"
      [] name = "EOFError" -> ""
      [] name = "ProcessLookupError" -> ""
      [] name = "SystemExit" -> "1"
      [] name = "KeyboardInterrupt" -> ""
      [] name = "UnicodeDecodeError" -> "'utf-8' codec can't decode byte 0xff in position 0: invalid start byte"
      [] name = "InvalidOperation" -> "[<class 'decimal.InvalidOperation'>]"
      [] name = "AttributeError" -> "module 'tmp_sol' has no attribute 'Solution'"
      [] OTHER -> "boom"

\* f"failed: [{type(e).__name__}] {e}"
FailedExc(name) == "failed: [" \o name \o "] " \o ExcText(name)

-----------------------------------------------------------------------------
(* Requests. *)

NoTimeout == 0 - 1          \* sample.timeout is None
NoStats == 0                \* stats is None / no ResourceStats object

Sources == {"human-eval", "mbpp", "livecodebench", "apps"}
Langs == {"python", "javascript", "typescript", "ruby"}

NoTest == [present |-> FALSE, ninputs |-> 0, noutputs |-> 0, fn_mode |-> FALSE]
Tests == {NoTest} \cup
         [present : {TRUE}, ninputs : 0..MaxCases, noutputs : 0..MaxCases,
          fn_mode : BOOLEAN]

\* A test is only looked at for livecodebench; it is left out of the others.
Samples == {s \in [source : Sources, lang : Langs,
                    timeout : {NoTimeout, 0, MaxTimeout}, test : Tests] :
                s.test.present => s.source = "livecodebench"}

NoSample == [source |-> "", lang |-> "", timeout |-> NoTimeout, test |-> NoTest]

NoRet == [set |-> FALSE, arity |-> 0, ok |-> FALSE, msg |-> "", stats |-> NoStats]
NoResponse == [set |-> FALSE, status |-> FALSE, msg |-> "", data |-> NoStats]

Result(ok, msg) == [ok |-> ok, msg |-> msg]

NoExit == [code |-> 0, stdout |-> "", stderr |-> "", utf8 |-> TRUE]

\* Numbers of ResourceStats are fractions n / d of naturals, d > 0.
Frac(n, d) == [n |-> n, d |-> d]
FracGE(a, b) == a.n * b.d >= b.n * a.d

\* ResourceStats(): resource_monitor.py:8-13, every field 0.0
ZeroStats == [cpu_percent |-> Frac(0, 1), peak_cpu_percent |-> Frac(0, 1),
              memory_mb |-> Frac(0, 1), peak_memory_mb |-> Frac(0, 1)]

\* The user code called no primitive.
NoCall == [prim |-> "", then |-> ""]

\* No module is being loaded.
NoSol == [loaded |-> "none", text |-> FALSE, cls |-> FALSE, clsFn |-> FALSE, modFn |-> FALSE]

\* No stdin mock is under study.
NoMock == [phase |-> "none", inputs |-> "", pos |-> 0, ncalls |-> 0,
           readline |-> <<>>, read |-> <<>>, readlines |-> <<>>,
           buffer_readline |-> <<>>, buffer_read |-> <<>>]

\* No comparison is under study.
NoCmp == [phase |-> "none", out |-> "", exp |-> "",
          res |-> [kind |-> "none", msg |-> ""],
          out0 |-> "", exp0 |-> "", res0 |-> [kind |-> "none", msg |-> ""]]

-----------------------------------------------------------------------------
(* Dispatcher: server.py evaluate. *)

\* CODE_EXECUTOR_MAP, server.py:81-85: lang -> (runner, default timeout)
CODE_EXECUTOR_MAP ==
    [l \in {"javascript", "python", "typescript"} |->
        CASE l = "javascript" -> [fn |-> "js", default_timeout |-> 30]
          [] l = "python" -> [fn |-> "py_code", default_timeout |-> 30]
          [] l = "typescript" -> [fn |-> "ts", default_timeout |-> 50]]

\* Keyword parameters in the signature of each runner function.
RunnerParams(fn) ==
    CASE fn = "js" -> {"code", "timeout"}
      [] fn = "py_code" -> {"code", "timeout", "memory_limit"}
      [] fn = "ts" -> {"code", "timeout", "memory_limit"}
      [] fn = "py_test" -> {"code", "inputs", "expect_outputs", "fn_name",
                            "timeout", "memory_limit"}

\* Length of the tuple each runner function returns.
ReturnArity(fn) == IF fn = "js" THEN 2 ELSE 3

\* Variant that tests truthiness (`sample.timeout or default`): a supplied 0
\* would fall back to the default.  C8 must tell the two apart.
TimeoutOrTruthy(t, default) == IF t > 0 THEN t ELSE default

\* sample.timeout if sample.timeout is not None else default
TimeoutOr(t, default) == IF t # NoTimeout THEN t ELSE default

\* default_timeout = 6.0 + len(sample.test.inputs) * 2.0
TestDefaultTimeout(ninputs) == 60 + ninputs * 20

CallOf(fn, kwargs, t) ==
    [kind |-> "call", fn |-> fn, kwargs |-> kwargs, timeout |-> t, msg |-> "", exc |-> ""]
RefuseWith(msg) ==
    [kind |-> "respond", fn |-> "none", kwargs |-> {}, timeout |-> NoTimeout,
     msg |-> msg, exc |-> ""]
RaiseOf(exc) ==
    [kind |-> "raise", fn |-> "none", kwargs |-> {}, timeout |-> NoTimeout,
     msg |-> "", exc |-> exc]

\* What evaluate does with a sample up to its first await or its return.
Dispatch(s) ==
    IF s.source \in {"human-eval", "mbpp"}
    THEN IF s.lang \in DOMAIN CODE_EXECUTOR_MAP
         THEN CallOf(CODE_EXECUTOR_MAP[s.lang].fn,
                     {"code", "timeout", "memory_limit"},
                     TimeoutOr(s.timeout, CODE_EXECUTOR_MAP[s.lang].default_timeout))
         \* ok, msg = False, "not supported language: ..."; stats = None; then the
         \* logger.info f-string of line 98 reads the local `timeout`, which this
         \* branch never assigned.
         ELSE RaiseOf("UnboundLocalError")
    ELSE IF s.source = "livecodebench"
    THEN IF s.lang # "python"
         THEN RefuseWith("not supported language: " \o s.lang)
         ELSE IF ~s.test.present
         THEN CallOf("py_code", {"code", "timeout", "memory_limit"},
                     TimeoutOr(s.timeout, 30))
         ELSE CallOf("py_test",
                     {"code", "inputs", "expect_outputs", "fn_name", "timeout",
                      "memory_limit"},
                     TimeoutOr(s.timeout, TestDefaultTimeout(s.test.ninputs)))
    ELSE RefuseWith("not supported data source: " \o s.source)

\* First position of a runner's body.
EntryPc(fn) ==
    CASE fn \in {"py_code", "py_test"} -> "py_spawn"
      [] fn = "js" -> "js_tmp"
      [] fn = "ts" -> "ts_tmp"

TypeOK ==
    /\ pc \in STRING
    /\ sample.source \in Sources \cup {""}
    /\ sample.lang \in Langs \cup {""}
    /\ sample.test \in Tests
    /\ via \in {"none", "dispatcher", "direct", "kill_proc"}
    /\ runner \in {"none", "py_code", "py_test", "js", "ts"}
    /\ child \in {"none", "running", "dying", "zombie", "reaped"}
    /\ handle \in {"none", "open", "closed"}
    /\ tempDir \in BOOLEAN /\ tmpFile \in BOOLEAN
    /\ written \in Nat /\ spawned \in Nat

\* Everything that is the same before a request, before a call of kill_proc
\* on a process of its own, and before a run of the comparator.
Quiet ==
    /\ sample = NoSample
    /\ runner = "none"
    /\ timeout = NoTimeout
    /\ chosen = [runner |-> "none", timeout |-> NoTimeout]
    /\ guard = [installs |-> 0, restored |-> FALSE]
    /\ compiled = FALSE
    /\ caseIdx = 0
    /\ cres = Result(FALSE, "")
    /\ q = <<>>
    /\ qclosed = FALSE
    /\ written = 0
    /\ tempDir = FALSE
    /\ tmpFile = FALSE
    /\ filePath = FALSE
    /\ reason = ""
    /\ waitOutcome = "none"
    /\ stats = NoStats
    /\ ret = NoRet
    /\ response = NoResponse
    /\ raised = ""
    /\ spawned = 0
    /\ signals = <<>>
    /\ stopEvent = FALSE
    /\ spc = "none"
    /\ samplerStats = NoStats
    /\ nsamples = 0
    /\ committed = FALSE
    /\ exitInfo = NoExit
    /\ sol = NoSol
    /\ userCall = NoCall
    /\ performed = {}
    /\ kcalls = 0
    /\ cpuSamples = <<>>
    /\ memSamples = <<>>
    /\ statsVal = ZeroStats
    /\ userFiles = FALSE
    /\ ran = <<>>

Init ==
    /\ Quiet
    /\ pc = "idle"
    /\ via = "none"
    /\ child = "none"
    /\ handle = "none"
    /\ cpc = "none"
    /\ cmp = NoCmp
    /\ mock = NoMock

childVars == <<child, handle, cpc, guard, compiled, caseIdx, cres, q, qclosed,
               written, tempDir, spawned>>
samplerData == <<cpuSamples, memSamples, statsVal>>
samplerVars == <<stopEvent, spc, samplerStats, nsamples, committed, samplerData>>
fileVars == <<tmpFile, filePath, exitInfo>>
auxVars == <<sol, userCall, performed, kcalls, cmp, userFiles, ran, mock>>

\* POST /evaluations: evaluate(sample), server.py:76-168, up to the call of the runner.
Evaluate(s) ==
    /\ pc = "idle"
    /\ sample' = s
    /\ via' = "dispatcher"
    /\ LET d == Dispatch(s) IN
        CASE d.kind = "call" ->
                /\ chosen' = [runner |-> d.fn, timeout |-> d.timeout]
                /\ IF d.kwargs \subseteq RunnerParams(d.fn)
                   THEN /\ runner' = d.fn
                        /\ timeout' = d.timeout
                        /\ pc' = EntryPc(d.fn)
                        /\ raised' = raised
                   ELSE /\ raised' = "TypeError"
                        /\ pc' = "raised"
                        /\ UNCHANGED <<runner, timeout>>
                /\ UNCHANGED response
          [] d.kind = "respond" ->
                /\ response' = [set |-> TRUE, status |-> FALSE, msg |-> d.msg,
                                data |-> NoStats]
                /\ pc' = "responded"
                /\ UNCHANGED <<chosen, runner, timeout, raised>>
          [] d.kind = "raise" ->
                /\ raised' = d.exc
                /\ pc' = "raised"
                /\ UNCHANGED <<chosen, runner, timeout, response>>
    /\ UNCHANGED <<childVars, samplerVars, fileVars, reason, waitOutcome, stats, ret, signals>>
    /\ UNCHANGED auxVars

\* exec_js.execute_code(code, timeout) called as a function.  The dispatcher's
\* own call of it does not bind (see Evaluate), so the body of the JavaScript
\* runner is entered by a call that matches its signature.
DirectCall(t) ==
    /\ pc = "idle"
    /\ {"code", "timeout"} \subseteq RunnerParams("js")
    /\ sample' = [source |-> "", lang |-> "", timeout |-> t, test |-> NoTest]
    /\ via' = "direct"
    /\ runner' = "js"
    /\ timeout' = t
    /\ pc' = EntryPc("js")
    /\ UNCHANGED <<chosen, childVars, samplerVars, fileVars, reason, waitOutcome, stats, ret,
                   response, raised, signals>>
    /\ UNCHANGED auxVars

\* evaluate after the runner returned: unpack, log, build the response
\* (server.py:89-118 and 130-163).
Respond ==
    /\ pc = "returned"
    /\ via = "dispatcher"
    /\ IF ret.arity # 3
       THEN /\ raised' = "ValueError"
            /\ pc' = "raised"
            /\ UNCHANGED response
       ELSE /\ response' = [set |-> TRUE, status |-> ret.ok, msg |-> ret.msg,
                            data |-> ret.stats]
            /\ pc' = "responded"
            /\ UNCHANGED raised
    /\ UNCHANGED <<sample, via, runner, timeout, chosen, childVars, samplerVars,
                   fileVars, reason, waitOutcome, stats, ret, signals>>
    /\ UNCHANGED auxVars

-----------------------------------------------------------------------------
(* Python runners, parent side: exec_py_code.py execute_code (16-53) and    *)
(* exec_py_test.py execute_test (19-64); the two bodies are the same        *)
(* scaffold around a different child target.                                *)

\* p.is_alive(): polls the child; a child that has exited is reaped by the poll.
IsAlive(c) == c \in {"running", "dying"}
Polled(c) == IF c = "zombie" THEN "reaped" ELSE c

\* Variant with the two branches exchanged.  C5 must tell the two apart.
TimeoutReasonSwapped(alive, t) ==
    IF alive THEN "no result from subprocess"
    ELSE "subprocess timeout: " \o FloatStr(t) \o "s"

\* except asyncio.TimeoutError: reason by p.is_alive()
TimeoutReason(alive, t) ==
    IF alive THEN "subprocess timeout: " \o FloatStr(t) \o "s"
    ELSE "no result from subprocess"

\* asyncio.create_task(_monitor()) queues the sampler's first step; the event
\* loop runs it when the runner first suspends, before anything resumes the
\* runner: the steps that resume the runner are guarded by spc # "s_init".

\* ctx.SimpleQueue(); ctx.Process(...); p.start(); monitor_process_resources(p.pid).
\* p.pid is set by start(), so the branch that skips monitoring is not taken.
PySpawn ==
    /\ pc = "py_spawn"
    /\ q' = <<>>
    /\ child' = "running"
    /\ handle' = "open"
    /\ cpc' = "c_start"
    /\ spawned' = spawned + 1
    /\ samplerStats' = 1
    /\ stats' = 1
    /\ stopEvent' = FALSE
    /\ spc' = "s_init"
    /\ cpuSamples' = <<>>
    /\ memSamples' = <<>>
    /\ statsVal' = ZeroStats
    /\ pc' = "py_wait"
    /\ UNCHANGED <<sample, via, runner, timeout, chosen, guard, compiled, caseIdx,
                   cres, qclosed, written, tempDir, fileVars, reason, waitOutcome, ret,
                   response, raised, signals, nsamples, committed>>
    /\ UNCHANGED auxVars

\* ok, msg = await wait_for(to_thread(q.get), timeout); return ok, msg, stats
PyResult ==
    /\ pc = "py_wait"
    /\ spc # "s_init"
    /\ q # <<>>
    /\ ret' = [set |-> TRUE, arity |-> 3, ok |-> Head(q).ok, msg |-> Head(q).msg,
               stats |-> stats]
    /\ q' = Tail(q)
    /\ waitOutcome' = "result"
    /\ pc' = "py_stop"
    /\ UNCHANGED <<sample, via, runner, timeout, chosen, child, handle, cpc, guard,
                   compiled, caseIdx, cres, qclosed, written, tempDir, spawned,
                   samplerVars, fileVars, reason, stats, response, raised, signals>>
    /\ UNCHANGED auxVars

\* except asyncio.TimeoutError.  The timer of wait_for races with the thread
\* that blocks in q.get: it can fire after the child wrote its message and
\* before the thread has handed the message to the event loop, so the branch
\* is open whether or not q holds a message; it looks only at p.is_alive().
PyTimeout ==
    /\ pc = "py_wait"
    /\ spc # "s_init"
    /\ reason' = TimeoutReason(IsAlive(child), timeout)
    /\ waitOutcome' = IF IsAlive(child) THEN "timeout_alive" ELSE "timeout_dead"
    /\ child' = Polled(child)
    /\ pc' = "py_stop"
    /\ UNCHANGED <<sample, via, runner, timeout, chosen, handle, cpc, guard,
                   compiled, caseIdx, cres, q, qclosed, written, tempDir, spawned,
                   samplerVars, fileVars, stats, ret, response, raised, signals>>
    /\ UNCHANGED auxVars

\* except Exception as e: the wait itself failed (the executor refuses the job)
PyWaitError ==
    /\ pc = "py_wait"
    /\ spc # "s_init"
    /\ reason' = "[RuntimeError] " \o ExcText("RuntimeError")
    /\ waitOutcome' = "error"
    /\ pc' = "py_stop"
    /\ UNCHANGED <<sample, via, runner, timeout, chosen, childVars, samplerVars,
                   fileVars, stats, ret, response, raised, signals>>
    /\ UNCHANGED auxVars

\* finally: stop_event.set()
PyStop ==
    /\ pc = "py_stop"
    /\ stopEvent' = TRUE
    /\ signals' = Append(signals, "stop")
    /\ pc' = "py_sleep"
    /\ UNCHANGED <<sample, via, runner, timeout, chosen, childVars, spc,
                   samplerStats, nsamples, committed, samplerData, fileVars, reason,
                   waitOutcome, stats, ret, response, raised>>
    /\ UNCHANGED auxVars

\* Variant in which the runner's sleep can end while the sampler still sleeps.
\* C23 must tell the two apart.
SamplerWokenOrNot == TRUE

\* The sampler's sleep(interval) began before the runner's sleep(0.1) and both
\* last 100 ms: the event loop runs timers in the order of their deadlines, so
\* the sampler has been resumed when the runner's sleep is over.
SamplerWoken == spc # "s_sleep"

\* await asyncio.sleep(0.1) is over
PySlept ==
    /\ pc = "py_sleep"
    /\ SamplerWoken
    /\ pc' = "kp_term"
    /\ kcalls' = kcalls + 1
    /\ UNCHANGED <<sample, via, runner, timeout, chosen, childVars, samplerVars,
                   fileVars, reason, waitOutcome, stats, ret, response, raised, signals>>
    /\ UNCHANGED <<sol, userCall, performed, cmp, userFiles, ran, mock>>

-----------------------------------------------------------------------------
(* Process killer: utils.py kill_proc.  The operating system decides        *)
(* whether a signalled child is gone within the 100 ms of p.join(0.1).      *)

\* State of the child after a join(0.1) that follows a signal.
\* gone: the child exited within the window and the join reaped it.
AfterJoin(c, delivered, gone, hard) ==
    IF gone THEN "reaped"
    ELSE IF delivered /\ hard THEN "dying"
    ELSE c

\* kill_proc(p) is called on a process handle: `if not p: return`
KillCall ==
    /\ via = "kill_proc"
    /\ pc \in {"k_idle", "k_returned"}
    /\ kcalls < MaxKillCalls
    /\ kcalls' = kcalls + 1
    /\ pc' = IF handle = "none" THEN "k_returned" ELSE "kp_term"
    /\ UNCHANGED <<sample, via, runner, timeout, chosen, childVars, samplerVars,
                   fileVars, reason, waitOutcome, stats, ret, response, raised, signals>>
    /\ UNCHANGED <<sol, userCall, performed, cmp, userFiles, ran, mock>>

\* if p.is_alive(): p.terminate(); p.join(0.1).  The test is outside every
\* try: on a handle that close() has released, is_alive() raises ValueError
\* ("process object is closed") and the exception leaves kill_proc.
KillTerminate(gone) ==
    /\ pc = "kp_term"
    /\ IF handle = "closed"
       THEN /\ gone = FALSE
            /\ raised' = "ValueError"
            /\ pc' = "raised"
            /\ UNCHANGED <<child, signals>>
       ELSE /\ IF IsAlive(child)
               THEN /\ signals' = Append(signals, "SIGTERM")
                    /\ child' = AfterJoin(child, TRUE, gone, FALSE)
               ELSE /\ child' = Polled(child)
                    /\ gone = FALSE
                    /\ UNCHANGED signals
            /\ pc' = "kp_kill"
            /\ UNCHANGED raised
    /\ UNCHANGED <<sample, via, runner, timeout, chosen, handle, cpc, guard,
                   compiled, caseIdx, cres, q, qclosed, written, tempDir, spawned,
                   samplerVars, fileVars, reason, waitOutcome, stats, ret, response>>
    /\ UNCHANGED auxVars

\* Variant that signals without asking whether the child is alive.  C20 must
\* tell the two apart.
KillHardUnconditional(delivered, gone) ==
    /\ pc = "kp_kill"
    /\ signals' = IF delivered THEN Append(signals, "SIGKILL") ELSE signals
    /\ child' = IF IsAlive(child) THEN AfterJoin(child, delivered, gone, TRUE)
                ELSE Polled(child)
    /\ IsAlive(child) \/ ~gone
    /\ pc' = "kp_close"
    /\ UNCHANGED <<sample, via, runner, timeout, chosen, handle, cpc, guard,
                   compiled, caseIdx, cres, q, qclosed, written, tempDir, spawned,
                   samplerVars, fileVars, reason, waitOutcome, stats, ret, response, raised>>
    /\ UNCHANGED auxVars

\* if p.is_alive(): try: os.kill(p.pid, SIGKILL) except Exception: log; p.join(0.1)
\* delivered = FALSE: os.kill raised and the exception was swallowed.
KillHard(delivered, gone) ==
    /\ pc = "kp_kill"
    /\ IF IsAlive(child)
       THEN /\ signals' = IF delivered THEN Append(signals, "SIGKILL") ELSE signals
            /\ child' = AfterJoin(child, delivered, gone, TRUE)
       ELSE /\ child' = Polled(child)
            /\ delivered = FALSE /\ gone = FALSE
            /\ UNCHANGED signals
    /\ pc' = "kp_close"
    /\ UNCHANGED <<sample, via, runner, timeout, chosen, handle, cpc, guard,
                   compiled, caseIdx, cres, q, qclosed, written, tempDir, spawned,
                   samplerVars, fileVars, reason, waitOutcome, stats, ret, response, raised>>
    /\ UNCHANGED auxVars

\* try: p.close() except Exception: log.  close() polls the child and raises
\* ValueError when it is still running; the handle is then left open.
KillClose ==
    /\ pc = "kp_close"
    /\ IF IsAlive(child)
       THEN UNCHANGED <<child, handle, signals>>
       ELSE /\ child' = Polled(child)
            /\ handle' = "closed"
            /\ signals' = Append(signals, "close")
    /\ pc' = IF via = "kill_proc" THEN "k_returned" ELSE "py_qclose"
    /\ UNCHANGED <<sample, via, runner, timeout, chosen, cpc, guard, compiled,
                   caseIdx, cres, q, qclosed, written, tempDir, spawned,
                   samplerVars, fileVars, reason, waitOutcome, stats, ret, response, raised>>
    /\ UNCHANGED auxVars

\* try: q.close() except Exception: log; then the pending return, or
\* return False, f"failed: {reason}", stats.  closeFails: q.close() raised and
\* the exception was swallowed.
PyReturn(closeFails) ==
    /\ pc = "py_qclose"
    /\ qclosed' = ~closeFails
    /\ signals' = Append(signals, "qclose")
    /\ ret' = IF ret.set THEN ret
              ELSE [set |-> TRUE, arity |-> 3, ok |-> FALSE,
                    msg |-> "failed: " \o reason, stats |-> stats]
    /\ pc' = "returned"
    /\ UNCHANGED <<sample, via, runner, timeout, chosen, child, handle, cpc, guard,
                   compiled, caseIdx, cres, q, written, tempDir, spawned,
                   samplerVars, fileVars, reason, waitOutcome, stats, response, raised>>
    /\ UNCHANGED auxVars

-----------------------------------------------------------------------------
(* Python children.  A child takes steps only while it is running; a child  *)
(* that a signal has ended stays where it was.  User code that loops        *)
(* forever is a child that never takes its next step.                       *)

\* What a piece of user code can do when it is run.
Throwables == {"ValueError", "SystemExit", "KeyboardInterrupt"}
\* Python: ValueError is an Exception; SystemExit and KeyboardInterrupt are
\* BaseExceptions that `except Exception` does not catch.
IsException(name) == name \notin {"SystemExit", "KeyboardInterrupt"}

ExecOutcomes == {"pass"} \cup Throwables
parentVars == <<pc, sample, via, runner, timeout, chosen, reason, waitOutcome, stats, ret,
                response, raised, signals>>

\* exec_py_code.py _unsafe_execute: `with create_tempdir()` entered
\* (tempfile.TemporaryDirectory(), chdir).  made = FALSE: mkdtemp raised OSError,
\* which _subprocess_target turns into the message.
ChildTempdir(made) ==
    /\ child = "running" /\ runner = "py_code" /\ cpc = "c_start"
    /\ IF made
       THEN /\ tempDir' = TRUE
            /\ cpc' = "c_guard"
            /\ UNCHANGED cres
       ELSE /\ cres' = Result(FALSE, FailedExc("OSError"))
            /\ cpc' = "c_put"
            /\ UNCHANGED tempDir
    /\ UNCHANGED <<parentVars, child, handle, guard, compiled, caseIdx, q, qclosed,
                   written, spawned, samplerVars, fileVars>>
    /\ UNCHANGED auxVars

\* Variant that goes on to the user code without calling reliability_guard.
\* C24 must tell the two apart.
ChildGuardOmitted ==
    /\ child = "running" /\ runner = "py_code" /\ cpc = "c_guard"
    /\ cpc' = "c_exec"
    /\ UNCHANGED <<parentVars, child, handle, guard, compiled, caseIdx, cres, q, qclosed,
                   written, tempDir, spawned, samplerVars, fileVars>>
    /\ UNCHANGED auxVars

\* rmtree = shutil.rmtree; rmdir = os.rmdir; chdir = os.chdir; reliability_guard(...)
ChildGuard ==
    /\ child = "running" /\ runner = "py_code" /\ cpc = "c_guard"
    /\ guard' = [installs |-> guard.installs + 1, restored |-> FALSE]
    /\ cpc' = "c_exec"
    /\ UNCHANGED <<parentVars, child, handle, compiled, caseIdx, cres, q, qclosed,
                   written, tempDir, spawned, samplerVars, fileVars>>
    /\ UNCHANGED auxVars

\* Names reliability_guard replaces (exec_py_code.py:197-246).
GuardedNames ==
    {"exit", "quit", "help", "subprocess.Popen",
     "shutil.rmtree", "shutil.move", "shutil.chown",
     "os.kill", "os.system", "os.putenv", "os.remove", "os.removedirs", "os.rmdir",
     "os.fchdir", "os.setuid", "os.fork", "os.forkpty", "os.killpg", "os.rename",
     "os.renames", "os.truncate", "os.replace", "os.unlink", "os.fchmod",
     "os.fchown", "os.chmod", "os.chown", "os.chroot", "os.lchflags", "os.lchmod",
     "os.lchown", "os.getcwd", "os.chdir"}

\* Names the finally of _unsafe_execute puts back (lines 97-101).
RestoredNames == {"shutil.rmtree", "os.rmdir", "os.chdir"}

\* Variant that neutralizes by assigning None (the upstream human-eval way).
\* C18 must tell the two apart.
DisabledAsNone(name) == "none"

\* _disabled(name): a function that logs and returns None
Disabled(name) == "noop"

\* What the name is bound to in the child: "original", "noop" or "none".
Attr(g, name) ==
    IF g.installs > 0 /\ name \in GuardedNames /\ ~(g.restored /\ name \in RestoredNames)
    THEN Disabled(name)
    ELSE "original"

\* Primitives the user code may call before it ends.
CalledPrims == {"os.system", "os.kill", "os.fork", "shutil.rmtree",
                "subprocess.Popen", "exit", "quit"}

\* (ok, msg) of _unsafe_execute for what exec(code, exec_globals) did:
\* return True, "" / except BaseException as e: return False, f"failed: [..] {e}"
CodeVerdict(o) ==
    IF o = "pass" THEN Result(TRUE, "") ELSE Result(FALSE, FailedExc(o))

\* with swallow_io(): exec(code, exec_globals).  The user code calls the
\* primitive prim ("" for none) and then ends with o.  Calling a no-op returns
\* None; calling None raises TypeError; calling the original performs it.
\* files: the user code wrote a file into the current directory, which is the
\* temp directory (open() is not guarded).
ChildExec(o, prim, files) ==
    /\ child = "running" /\ runner = "py_code" /\ cpc = "c_exec"
    /\ compiled' = TRUE
    /\ userFiles' = files
    /\ IF prim = ""
       THEN /\ cres' = CodeVerdict(o)
            /\ userCall' = NoCall
            /\ UNCHANGED performed
       ELSE /\ userCall' = [prim |-> prim, then |-> o]
            /\ performed' = IF Attr(guard, prim) = "original"
                             THEN performed \cup {prim} ELSE performed
            /\ cres' = IF Attr(guard, prim) = "none"
                        THEN Result(FALSE, "failed: [TypeError] 'NoneType' object is not callable")
                        ELSE CodeVerdict(o)
    /\ cpc' = "c_restore"
    /\ UNCHANGED <<parentVars, child, handle, guard, caseIdx, q, qclosed, written,
                   tempDir, spawned, samplerVars, fileVars>>
    /\ UNCHANGED <<sol, kcalls, cmp, ran, mock>>

\* finally: shutil.rmtree = rmtree; os.rmdir = rmdir; os.chdir = chdir
ChildRestore ==
    /\ child = "running" /\ runner = "py_code" /\ cpc = "c_restore"
    /\ guard' = [guard EXCEPT !.restored = TRUE]
    /\ cpc' = "c_cleanup"
    /\ UNCHANGED <<parentVars, child, handle, compiled, caseIdx, cres, q, qclosed,
                   written, tempDir, spawned, samplerVars, fileVars>>
    /\ userCall' = NoCall
    /\ UNCHANGED <<sol, performed, kcalls, cmp, userFiles, ran, mock>>

\* TemporaryDirectory.cleanup() calls shutil.rmtree, which removes each file
\* with os.unlink and then the directory with os.rmdir, each looked up in os
\* when it is called.  The directory is removed iff it has no file or
\* os.unlink is the original; otherwise os.rmdir raises OSError, whose str(e)
\* is modelled without the path of the directory.
\*
\* leaving `with create_tempdir()`: chdir(cwd) back (os.chdir is restored),
\* then TemporaryDirectory cleanup.  When the directory cannot be removed the
\* OSError of os.rmdir leaves _unsafe_execute in place of its return value and
\* `except Exception` of _subprocess_target makes it the message.
ChildCleanup ==
    /\ child = "running" /\ runner = "py_code" /\ cpc = "c_cleanup"
    /\ IF ~userFiles \/ Attr(guard, "os.unlink") = "original"
       THEN /\ tempDir' = FALSE
            /\ UNCHANGED cres
       ELSE /\ tempDir' = TRUE
            /\ cres' = Result(FALSE, "failed: [OSError] [Errno 39] Directory not empty")
    /\ cpc' = "c_put"
    /\ UNCHANGED <<parentVars, child, handle, guard, compiled, caseIdx, q,
                   qclosed, written, spawned, samplerVars, fileVars>>
    /\ UNCHANGED auxVars

\* _subprocess_target: q.put((ok, msg)), in the try or in `except Exception`
ChildPut ==
    /\ child = "running" /\ cpc = "c_put"
    /\ q' = Append(q, cres)
    /\ written' = written + 1
    /\ cpc' = "c_exit"
    /\ UNCHANGED <<parentVars, child, handle, guard, compiled, caseIdx, cres,
                   qclosed, tempDir, spawned, samplerVars, fileVars>>
    /\ sol' = NoSol /\ ran' = <<>>
    /\ UNCHANGED <<userCall, performed, kcalls, cmp, userFiles, mock>>

\* the child's main returns, or a BaseException left _subprocess_target:
\* the process exits and waits to be reaped
ChildExit ==
    /\ child = "running" /\ cpc = "c_exit"
    /\ child' = "zombie"
    /\ cpc' = "c_done"
    /\ UNCHANGED <<parentVars, handle, guard, compiled, caseIdx, cres, q, qclosed,
                   written, tempDir, spawned, samplerVars, fileVars>>
    /\ sol' = NoSol /\ ran' = <<>>
    /\ UNCHANGED <<userCall, performed, kcalls, cmp, userFiles, mock>>

\* a child that got SIGKILL and outlived the killer's join is gone at last
ChildDies ==
    /\ child = "dying"
    /\ child' = "zombie"
    /\ UNCHANGED <<parentVars, handle, cpc, guard, compiled, caseIdx, cres, q,
                   qclosed, written, tempDir, spawned, samplerVars, fileVars>>
    /\ UNCHANGED auxVars

\* Where a throwable raised inside exec_py_test.py _unsafe_execute ends:
\* `except Exception` of _subprocess_target makes it the message, anything
\* else leaves the child without a message.
Escapes(name) ==
    IF IsException(name)
    THEN [cpc |-> "c_put", cres |-> Result(FALSE, FailedExc(name))]
    ELSE [cpc |-> "c_exit", cres |-> Result(FALSE, "")]

\* exec_py_test.py _unsafe_execute 89-95: the length check, then reliability_guard
ChildTestStart ==
    /\ child = "running" /\ runner = "py_test" /\ cpc = "c_start"
    /\ IF sample.test.ninputs # sample.test.noutputs
       THEN /\ cres' = Result(FALSE, "failed: number of inputs and outputs mismatch")
            /\ cpc' = "c_put"
            /\ UNCHANGED guard
       ELSE /\ guard' = [installs |-> guard.installs + 1, restored |-> FALSE]
            /\ cpc' = "t_compile"
            /\ UNCHANGED cres
    /\ UNCHANGED <<parentVars, child, handle, compiled, caseIdx, q, qclosed,
                   written, tempDir, spawned, samplerVars, fileVars>>
    /\ UNCHANGED auxVars

\* What running the module body can do.  In stdio mode make_function has moved
\* every statement that is not an import into wrapped_function, so the module
\* body passes or fails to compile.
CompileOutcomes(fn_mode) == IF fn_mode THEN ExecOutcomes ELSE {"pass", "ValueError"}

\* What the source handed to compile_code looks like.  text: it contains the
\* characters "class Solution"; cls: running it leaves a module attribute
\* Solution that is a class; clsFn: that class has the method fn_name; modFn:
\* the module has the attribute looked up (fn_name, or wrapped_function in
\* stdio mode).  In stdio mode make_function has moved a class statement into
\* wrapped_function, so the module never has the attribute Solution.
SolShapes(fn_mode) ==
    IF fn_mode
    THEN {sh \in [text : BOOLEAN, cls : BOOLEAN, clsFn : BOOLEAN, modFn : BOOLEAN] :
            sh.clsFn => sh.cls}
    ELSE [text : BOOLEAN, cls : {FALSE}, clsFn : {FALSE}, modFn : {TRUE}]

\* compile_code lines 317-324: the holder chosen by the text test
\* `"class Solution" in code`; tmp_sol.Solution() raises AttributeError when the
\* module has no such attribute.
CompiledSol(sh) ==
    IF sh.text THEN (IF sh.cls THEN "instance" ELSE "AttributeError") ELSE "module"

\* get_function: hasattr(compiled_sol, fn_name)
HasAttr(so, fn_mode) ==
    IF so.loaded = "instance" THEN fn_mode /\ so.clsFn ELSE so.modFn

SolOf(loaded, sh) ==
    [loaded |-> loaded, text |-> sh.text, cls |-> sh.cls, clsFn |-> sh.clsFn,
     modFn |-> sh.modFn]

\* compile_code(code_to_compile): exec(code, tmp_sol.__dict__) inside try/finally
\* without an except clause; compiled_sol is never None.
ChildCompile(o, sh) ==
    /\ child = "running" /\ runner = "py_test" /\ cpc = "t_compile"
    /\ o \in CompileOutcomes(sample.test.fn_mode)
    /\ sh \in SolShapes(sample.test.fn_mode)
    /\ compiled' = TRUE
    /\ IF o # "pass"
       THEN /\ sh = [text |-> FALSE, cls |-> FALSE, clsFn |-> FALSE,
                     modFn |-> ~sample.test.fn_mode]
            /\ sol' = SolOf("exec_failed", sh)
            /\ cpc' = Escapes(o).cpc
            /\ cres' = Escapes(o).cres
       ELSE IF CompiledSol(sh) = "AttributeError"
       THEN /\ sol' = SolOf("no_class", sh)
            /\ cpc' = Escapes("AttributeError").cpc
            /\ cres' = Escapes("AttributeError").cres
       ELSE /\ sol' = SolOf(CompiledSol(sh), sh)
            /\ cpc' = "t_getfn"
            /\ UNCHANGED cres
    /\ UNCHANGED <<parentVars, child, handle, guard, caseIdx, q, qclosed, written,
                   tempDir, spawned, samplerVars, fileVars>>
    /\ UNCHANGED <<userCall, performed, kcalls, cmp, userFiles, ran, mock>>

\* fn = get_function(compiled_sol, name); if fn is None: "failed: no function defined"
ChildGetFn ==
    /\ child = "running" /\ runner = "py_test" /\ cpc = "t_getfn"
    /\ IF HasAttr(sol, sample.test.fn_mode)
       THEN /\ caseIdx' = 1
            /\ cpc' = "t_case"
            /\ UNCHANGED cres
       ELSE /\ cres' = Result(FALSE, "failed: no function defined")
            /\ cpc' = "c_put"
            /\ UNCHANGED caseIdx
    /\ UNCHANGED <<parentVars, child, handle, guard, compiled, q, qclosed, written,
                   tempDir, spawned, samplerVars, fileVars>>
    /\ UNCHANGED auxVars

-----------------------------------------------------------------------------
(* JavaScript and TypeScript runners: exec_js.py execute_code (6-43) and    *)
(* exec_ts.py execute_code (8-71).  The TypeScript body is the JavaScript   *)
(* body plus the sampler and the inner finally that stops it.               *)

\* str.strip(): drop leading and trailing whitespace
IsSpace(c) == c \in {" ", "\n", "\t", "\r"}

RECURSIVE LStrip(_)
LStrip(s) ==
    IF Len(s) > 0 /\ IsSpace(SubSeq(s, 1, 1)) THEN LStrip(SubSeq(s, 2, Len(s))) ELSE s

RECURSIVE RStrip(_)
RStrip(s) ==
    IF Len(s) > 0 /\ IsSpace(SubSeq(s, Len(s), Len(s)))
    THEN RStrip(SubSeq(s, 1, Len(s) - 1)) ELSE s

Strip(s) == LStrip(RStrip(s))

\* What an interpreter run can end with.  utf8 = FALSE: the bytes written to
\* stdout are not valid UTF-8 (the text fields then stand for nothing).
Exits == {[code |-> 0, stdout |-> "hi\n", stderr |-> "", utf8 |-> TRUE],
          [code |-> 0, stdout |-> " 4 ", stderr |-> "warning\n", utf8 |-> TRUE],
          [code |-> 1, stdout |-> "", stderr |-> "Error: boom\n", utf8 |-> TRUE],
          [code |-> 0, stdout |-> "", stderr |-> "", utf8 |-> FALSE]}

\* the value returned after communicate(): lines 29-35 (js), 48-58 (ts).
\* stdout.decode() raises UnicodeDecodeError on bytes that are not UTF-8; the
\* outer `except Exception` makes it the message.
ExitVerdict(e) ==
    IF ~e.utf8 THEN Result(FALSE, FailedExc("UnicodeDecodeError"))
    ELSE IF e.code = 0 THEN Result(TRUE, Strip(e.stdout))
    ELSE Result(FALSE, "failed [exit " \o IntStr(e.code) \o "]: " \o Strip(e.stderr))

\* the tuple a JS/TS runner returns: (ok, msg) or (ok, msg, stats)
RetOf(fn, v, st) ==
    [set |-> TRUE, arity |-> ReturnArity(fn), ok |-> v.ok, msg |-> v.msg,
     stats |-> IF fn = "ts" THEN st ELSE NoStats]

\* with tempfile.NamedTemporaryFile(..., delete=False) as tmp_f: file_path = ...;
\* tmp_f.write(code); tmp_f.flush().  how: "ok", "nocreate" (the file cannot be
\* created), "nowrite" (write or flush raises after the file exists).
\* exec_ts.py line 12 creates stats = ResourceStats() first.
XTmp(how) ==
    /\ pc \in {"js_tmp", "ts_tmp"}
    /\ stats' = IF runner = "ts" THEN 2 ELSE stats
    /\ tmpFile' = (how # "nocreate")
    /\ filePath' = (how # "nocreate")
    /\ IF how = "ok"
       THEN /\ pc' = "x_spawn"
            /\ UNCHANGED ret
       ELSE /\ ret' = RetOf(runner, Result(FALSE, FailedExc("OSError")), stats')
            /\ pc' = "x_finally"
    /\ UNCHANGED <<sample, via, runner, timeout, chosen, childVars, samplerVars,
                   exitInfo, reason, waitOutcome, response, raised, signals>>
    /\ UNCHANGED auxVars

\* proc = await asyncio.create_subprocess_exec(...); for ts, then
\* monitor_process_resources(proc.pid).  started = FALSE: the interpreter cannot
\* be launched (FileNotFoundError), caught by the outer `except Exception`.
XSpawn(started) ==
    /\ pc = "x_spawn"
    /\ IF started
       THEN /\ child' = "running"
            /\ handle' = "open"
            /\ cpc' = "x_run"
            /\ spawned' = spawned + 1
            /\ pc' = "x_comm"
            /\ IF runner = "ts"
               THEN /\ samplerStats' = 1
                    /\ stats' = 1
                    /\ stopEvent' = FALSE
                    /\ spc' = "s_init"
                    /\ cpuSamples' = <<>>
                    /\ memSamples' = <<>>
                    /\ statsVal' = ZeroStats
               ELSE UNCHANGED <<samplerStats, stats, stopEvent, spc, samplerData>>
            /\ UNCHANGED ret
       ELSE /\ ret' = RetOf(runner, Result(FALSE, FailedExc("FileNotFoundError")), stats)
            /\ pc' = "x_finally"
            /\ UNCHANGED <<child, handle, cpc, spawned, samplerStats, stats,
                           stopEvent, spc, samplerData>>
    /\ UNCHANGED <<sample, via, runner, timeout, chosen, guard, compiled, caseIdx,
                   cres, q, qclosed, written, tempDir, nsamples, committed,
                   fileVars, reason, waitOutcome, response, raised, signals>>
    /\ UNCHANGED auxVars

\* the interpreter process ends by itself
ExtExit(e) ==
    /\ child = "running" /\ cpc = "x_run"
    /\ child' = "zombie"
    /\ cpc' = "c_done"
    /\ exitInfo' = e
    /\ UNCHANGED <<parentVars, handle, guard, compiled, caseIdx, cres, q, qclosed,
                   written, tempDir, spawned, samplerVars, tmpFile, filePath>>
    /\ UNCHANGED auxVars

\* Next position after the inner try of the runner body.
AfterComm(fn) == IF fn = "ts" THEN "ts_stop" ELSE "x_finally"

\* stdout, stderr = await wait_for(proc.communicate(), timeout) returned:
\* the process has exited and has been waited for
XDone ==
    /\ pc = "x_comm"
    /\ spc # "s_init"
    /\ child = "zombie"
    /\ child' = "reaped"
    /\ ret' = RetOf(runner, ExitVerdict(exitInfo), stats)
    /\ pc' = AfterComm(runner)
    /\ UNCHANGED <<sample, via, runner, timeout, chosen, handle, cpc, guard,
                   compiled, caseIdx, cres, q, qclosed, written, tempDir, spawned,
                   samplerVars, fileVars, reason, waitOutcome, stats, response, raised, signals>>
    /\ UNCHANGED auxVars

\* except asyncio.TimeoutError: proc.kill(); await proc.wait() begins.
\* The timer can fire when the child has just exited and communicate() has not
\* returned yet.  lost = TRUE: the event loop has already let go of the exited
\* process, and proc.kill() raises ProcessLookupError, which the outer
\* `except Exception` makes the message; lost = FALSE: kill() finds the exit
\* code and sends nothing.
XTimeout(lost) ==
    /\ pc = "x_comm"
    /\ spc # "s_init"
    /\ child \in {"running", "zombie"}
    /\ lost => child = "zombie"
    /\ IF child = "running"
       THEN /\ signals' = Append(signals, "SIGKILL")
            /\ child' = "dying"
            /\ pc' = "x_wait"
            /\ UNCHANGED ret
       ELSE IF lost
       THEN /\ ret' = RetOf(runner, Result(FALSE, FailedExc("ProcessLookupError")), stats)
            /\ child' = "reaped"
            /\ pc' = AfterComm(runner)
            /\ UNCHANGED signals
       ELSE /\ pc' = "x_wait"
            /\ UNCHANGED <<child, signals, ret>>
    /\ UNCHANGED <<sample, via, runner, timeout, chosen, handle, cpc, guard,
                   compiled, caseIdx, cres, q, qclosed, written, tempDir, spawned,
                   samplerVars, fileVars, reason, waitOutcome, stats, response, raised>>
    /\ UNCHANGED auxVars

\* await proc.wait() returned; return False, "failed: timeout"[, stats]
XKilled ==
    /\ pc = "x_wait"
    /\ child = "zombie"
    /\ child' = "reaped"
    /\ ret' = RetOf(runner, Result(FALSE, "failed: timeout"), stats)
    /\ pc' = AfterComm(runner)
    /\ UNCHANGED <<sample, via, runner, timeout, chosen, handle, cpc, guard,
                   compiled, caseIdx, cres, q, qclosed, written, tempDir, spawned,
                   samplerVars, fileVars, reason, waitOutcome, stats, response, raised, signals>>
    /\ UNCHANGED auxVars

\* exec_ts.py 63-66, inner finally: stop_event.set(); await asyncio.sleep(0.1)
TsStop ==
    /\ pc = "ts_stop"
    /\ stopEvent' = TRUE
    /\ signals' = Append(signals, "stop")
    /\ pc' = "ts_sleep"
    /\ UNCHANGED <<sample, via, runner, timeout, chosen, childVars, spc,
                   samplerStats, nsamples, committed, samplerData, fileVars, reason,
                   waitOutcome, stats, ret, response, raised>>
    /\ UNCHANGED auxVars

TsSlept ==
    /\ pc = "ts_sleep"
    /\ SamplerWoken
    /\ pc' = "x_finally"
    /\ UNCHANGED <<sample, via, runner, timeout, chosen, childVars, samplerVars,
                   fileVars, reason, waitOutcome, stats, ret, response, raised, signals>>
    /\ UNCHANGED auxVars

\* Variant whose existence test is negated, so that an existing file is kept.
\* C3 must tell the two apart.
FileAfterFinallyNegated(path, exists) == IF path /\ ~exists THEN FALSE ELSE exists

\* finally: if file_path and os.path.exists(file_path): os.remove(file_path)
\* the file exists after the removal step iff this is TRUE
FileAfterFinally(path, exists) == IF path /\ exists THEN FALSE ELSE exists

\* outer finally, then the pending return value is returned
XFinally ==
    /\ pc = "x_finally"
    /\ tmpFile' = FileAfterFinally(filePath, tmpFile)
    /\ pc' = "returned"
    /\ UNCHANGED <<sample, via, runner, timeout, chosen, childVars, samplerVars,
                   filePath, exitInfo, reason, waitOutcome, stats, ret, response, raised, signals>>
    /\ UNCHANGED auxVars

-----------------------------------------------------------------------------
(* Resource sampler: resource_monitor.py monitor_process_resources / _monitor. *)
(* The task runs only while the request task is suspended at an await or      *)
(* has ended.                                                                  *)

Suspended ==
    \/ pc \in {"py_wait", "py_sleep", "x_comm", "x_wait", "ts_sleep",
               "responded", "raised"}
    \/ pc = "returned" /\ via = "direct"

\* the OS can answer a query about the child only while its pid exists
Queryable(c) == c \in {"running", "dying", "zombie"}

RECURSIVE SeqSum(_)
SeqSum(xs) == IF xs = <<>> THEN 0 ELSE Head(xs) + SeqSum(Tail(xs))

\* Variant that forgets to divide by the number of samples.  C17 must tell
\* the two apart.
MeanUndivided(xs) == Frac(SeqSum(xs), 1)

\* sum(samples) / len(samples)
Mean(xs) == Frac(SeqSum(xs), Len(xs))

MaxFrac(a, v) == IF FracGE(a, Frac(v, 1)) THEN a ELSE Frac(v, 1)

\* lines 58-61: the averages, written when the loop is left through its test
\* or a break
Averaged(st, cs, ms) ==
    [st EXCEPT !.cpu_percent = IF cs # <<>> THEN Mean(cs) ELSE @,
               !.memory_mb = IF ms # <<>> THEN Mean(ms) ELSE @]

\* one pass of `while not stop_event.is_set(): try: sample except: break;
\* await sleep(interval)`, and the averages after the loop (lines 32-61).
\* cpu, mem: what the process reports; fail: "no", or the query that raises
\* NoSuchProcess / AccessDenied ("cpu": process.cpu_percent(), "mem":
\* process.memory_info()), or "other": process.cpu_percent() raises an
\* exception of another class (an OSError that is neither of the two), which
\* passes the inner `except` and is swallowed by contextlib.suppress(Exception)
\* of line 27, so that lines 58-61 are skipped.
\* d: [n, cs, ms, st], the sampler's data before.
PollStep(stop, fail, cpu, mem, d) ==
    IF stop
    THEN [spc |-> "s_done", nsamples |-> d.n, committed |-> TRUE, cs |-> d.cs,
          ms |-> d.ms, st |-> Averaged(d.st, d.cs, d.ms)]
    ELSE IF fail = "other"
    THEN [spc |-> "s_done", nsamples |-> d.n, committed |-> FALSE, cs |-> d.cs,
          ms |-> d.ms, st |-> d.st]
    ELSE LET cs == IF fail # "cpu" /\ cpu > 0 THEN Append(d.cs, cpu) ELSE d.cs
             pk == IF fail # "cpu" /\ cpu > 0 THEN MaxFrac(d.st.peak_cpu_percent, cpu)
                   ELSE d.st.peak_cpu_percent
             ms == IF fail = "no" THEN Append(d.ms, mem) ELSE d.ms
             pm == IF fail = "no" THEN MaxFrac(d.st.peak_memory_mb, mem)
                   ELSE d.st.peak_memory_mb
             st == [d.st EXCEPT !.peak_cpu_percent = pk, !.peak_memory_mb = pm]
         IN  IF fail # "no"
             THEN [spc |-> "s_done", nsamples |-> d.n, committed |-> TRUE, cs |-> cs,
                   ms |-> ms, st |-> Averaged(st, cs, ms)]
             ELSE [spc |-> "s_sleep", nsamples |-> d.n + 1, committed |-> FALSE,
                   cs |-> cs, ms |-> ms, st |-> st]

SamplerData == [n |-> nsamples, cs |-> cpuSamples, ms |-> memSamples, st |-> statsVal]

\* _monitor starts: psutil.Process(pid); process.cpu_percent(); first pass of
\* the loop.  failInit: the Process lookup raised, suppressed by
\* contextlib.suppress(Exception), nothing is committed.
SamplerBegin(failInit, fail, cpu, mem) ==
    /\ Suspended
    /\ spc = "s_init"
    /\ (~Queryable(child)) => failInit
    /\ failInit => (fail = "no")
    /\ IF failInit
       THEN /\ spc' = "s_done"
            /\ UNCHANGED <<nsamples, committed, samplerData>>
       ELSE LET r == PollStep(stopEvent, fail, cpu, mem, SamplerData) IN
            /\ spc' = r.spc
            /\ nsamples' = r.nsamples
            /\ committed' = r.committed
            /\ cpuSamples' = r.cs
            /\ memSamples' = r.ms
            /\ statsVal' = r.st
    /\ UNCHANGED <<parentVars, childVars, stopEvent, samplerStats, fileVars>>
    /\ UNCHANGED auxVars

\* the sampler wakes from await asyncio.sleep(interval) and runs the next pass
SamplerPoll(fail, cpu, mem) ==
    /\ Suspended
    /\ spc = "s_sleep"
    /\ (~Queryable(child)) => (stopEvent \/ fail # "no")
    /\ (stopEvent \/ fail # "no" \/ nsamples < MaxSamples)
    /\ LET r == PollStep(stopEvent, fail, cpu, mem, SamplerData) IN
            /\ spc' = r.spc
            /\ nsamples' = r.nsamples
            /\ committed' = r.committed
            /\ cpuSamples' = r.cs
            /\ memSamples' = r.ms
            /\ statsVal' = r.st
    /\ UNCHANGED <<parentVars, childVars, stopEvent, samplerStats, fileVars>>
    /\ UNCHANGED auxVars

\* What the process reports to the sampler: CPU percent since the last call
\* and resident memory in MB.
CpuReadings == {0, 30, 80}
MemReadings == {10, 40}
SamplerFails == {"no", "cpu", "mem", "other"}

-----------------------------------------------------------------------------
(* Stdio comparator: exec_py_test.py _unsafe_execute_stdio lines 154-174,    *)
(* get_stripped_lines, convert_line_to_decimals, and decimal.Decimal as far  *)
(* as the texts below reach (sign, digits, point, exponent, Infinity, NaN,   *)
(* sNaN; no underscores, no non-ASCII digits).                               *)

Char(s, i) == SubSeq(s, i, i)


DigitVal(c) ==
    CASE c = "0" -> 0 [] c = "1" -> 1 [] c = "2" -> 2 [] c = "3" -> 3
      [] c = "4" -> 4 [] c = "5" -> 5 [] c = "6" -> 6 [] c = "7" -> 7
      [] c = "8" -> 8 [] c = "9" -> 9

\* Index of the first character of s that is in set, 0 when there is none.
IndexIn(s, set) ==
    IF \E i \in 1..Len(s) : Char(s, i) \in set
    THEN CHOOSE i \in 1..Len(s) :
            Char(s, i) \in set /\ \A j \in 1..(i - 1) : Char(s, j) \notin set
    ELSE 0

\* val.split("\n")
RECURSIVE SplitLines(_)
SplitLines(s) ==
    LET i == IndexIn(s, {"\n"}) IN
    IF i = 0 THEN <<s>>
    ELSE <<SubSeq(s, 1, i - 1)>> \o SplitLines(SubSeq(s, i + 1, Len(s)))

\* Variant that strips the lines but not the whole text first, so that a
\* trailing newline makes one more (empty) line.  C14 must tell the two apart.
GetStrippedLinesUntrimmed(val) ==
    LET ls == SplitLines(val) IN [i \in 1..Len(ls) |-> Strip(ls[i])]

\* get_stripped_lines: val = val.strip(); [l.strip() for l in val.split("\n")]
GetStrippedLines(val) ==
    LET ls == SplitLines(Strip(val)) IN [i \in 1..Len(ls) |-> Strip(ls[i])]

\* line.split(): the maximal runs of non-whitespace characters
RECURSIVE Fields(_)
Fields(s) ==
    LET t == LStrip(s) IN
    IF t = "" THEN <<>>
    ELSE LET i == IndexIn(t, {" ", "\n", "\t", "\r"}) IN
         IF i = 0 THEN <<t>>
         ELSE <<SubSeq(t, 1, i - 1)>> \o Fields(SubSeq(t, i, Len(t)))

\* Decimal's parser ignores the case of letters.
LowerChar(c) ==
    CASE c = "A" -> "a" [] c = "E" -> "e" [] c = "F" -> "f" [] c = "I" -> "i"
      [] c = "N" -> "n" [] c = "S" -> "s" [] c = "T" -> "t" [] c = "Y" -> "y"
      [] OTHER -> c

RECURSIVE Lower(_)
Lower(s) == IF s = "" THEN "" ELSE LowerChar(Char(s, 1)) \o Lower(SubSeq(s, 2, Len(s)))

AllDigits(s) ==
    \A i \in 1..Len(s) : Char(s, i) \in {"0", "1", "2", "3", "4", "5", "6", "7", "8", "9"}

HasSign(s) == Len(s) > 0 /\ Char(s, 1) \in {"+", "-"}
Unsigned(s) == IF HasSign(s) THEN SubSeq(s, 2, Len(s)) ELSE s

\* decimal-part ::= digits '.' [digits] | ['.'] digits
IsDecimalPart(s) ==
    LET d == IndexIn(s, {"."}) IN
    IF d = 0 THEN Len(s) > 0 /\ AllDigits(s)
    ELSE /\ Len(s) > 1
         /\ AllDigits(SubSeq(s, 1, d - 1))
         /\ AllDigits(SubSeq(s, d + 1, Len(s)))

\* numeric-value without infinity: decimal-part [('e') [sign] digits]
IsNumeric(b) ==
    LET e == IndexIn(b, {"e"}) IN
    IF e = 0 THEN IsDecimalPart(b)
    ELSE /\ IsDecimalPart(SubSeq(b, 1, e - 1))
         /\ Len(Unsigned(SubSeq(b, e + 1, Len(b)))) > 0
         /\ AllDigits(Unsigned(SubSeq(b, e + 1, Len(b))))

\* nan ::= 'NaN' [digits] | 'sNaN' [digits]
IsQuietNaN(b) == StartsWith(b, "nan") /\ AllDigits(SubSeq(b, 4, Len(b)))
IsSignalingNaN(b) == StartsWith(b, "snan") /\ AllDigits(SubSeq(b, 5, Len(b)))

\* Decimal(elem) does not raise
IsDecimal(tok) ==
    LET b == Lower(Unsigned(tok)) IN
    IsNumeric(b) \/ b \in {"inf", "infinity"} \/ IsQuietNaN(b) \/ IsSignalingNaN(b)

RECURSIVE NatVal(_)
NatVal(s) ==
    IF s = "" THEN 0 ELSE NatVal(SubSeq(s, 1, Len(s) - 1)) * 10 + DigitVal(Char(s, Len(s)))

IntVal(s) == IF HasSign(s) /\ Char(s, 1) = "-" THEN 0 - NatVal(Unsigned(s)) ELSE NatVal(Unsigned(s))

\* Decimal(elem): kind, and for a number the signed coefficient m and the
\* scale s with value m * 10^(-s)
ToDecimal(tok) ==
    LET b == Lower(Unsigned(tok))
        neg == HasSign(tok) /\ Char(tok, 1) = "-"
        e == IndexIn(b, {"e"})
        mant == IF e = 0 THEN b ELSE SubSeq(b, 1, e - 1)
        ex == IF e = 0 THEN 0 ELSE IntVal(SubSeq(b, e + 1, Len(b)))
        d == IndexIn(mant, {"."})
        ip == IF d = 0 THEN mant ELSE SubSeq(mant, 1, d - 1)
        fp == IF d = 0 THEN "" ELSE SubSeq(mant, d + 1, Len(mant))
    IN  CASE b \in {"inf", "infinity"} -> [kind |-> "inf", neg |-> neg, m |-> 0, s |-> 0]
          [] IsQuietNaN(b) -> [kind |-> "nan", neg |-> neg, m |-> 0, s |-> 0]
          [] IsSignalingNaN(b) -> [kind |-> "snan", neg |-> neg, m |-> 0, s |-> 0]
          [] OTHER -> [kind |-> "num", neg |-> neg,
                       m |-> IF neg THEN 0 - NatVal(ip \o fp) ELSE NatVal(ip \o fp),
                       s |-> Len(fp) - ex]

RECURSIVE Pow10(_)
Pow10(n) == IF n <= 0 THEN 1 ELSE 10 * Pow10(n - 1)

\* Decimal.__eq__ for operands that are not signaling NaNs: a NaN equals
\* nothing, infinities are equal when their signs are, numbers by value
DecimalEq(a, b) ==
    CASE a.kind = "nan" \/ b.kind = "nan" -> FALSE
      [] a.kind = "inf" \/ b.kind = "inf" -> a.kind = b.kind /\ a.neg = b.neg
      [] OTHER -> LET k == IF a.s > b.s THEN a.s ELSE b.s IN
                  a.m * Pow10(k - a.s) = b.m * Pow10(k - b.s)

\* convert_line_to_decimals(line)
ConvertLineToDecimals(line) ==
    LET f == Fields(line) IN
    IF \A i \in 1..Len(f) : IsDecimal(f[i])
    THEN [ok |-> TRUE, decs |-> [i \in 1..Len(f) |-> ToDecimal(f[i])]]
    ELSE [ok |-> FALSE, decs |-> <<>>]

\* out_decimals != exp_decimals on two lists of distinct Decimal objects:
\* unequal lengths differ at once; else the elements are compared with == in
\* order up to the first unequal pair, and == on a signaling NaN raises
\* decimal.InvalidOperation.
RECURSIVE ListNe(_, _, _)
ListNe(a, b, i) ==
    IF Len(a) # Len(b) THEN "differ"
    ELSE IF i > Len(a) THEN "equal"
    ELSE IF a[i].kind = "snan" \/ b[i].kind = "snan" THEN "raise"
    ELSE IF DecimalEq(a[i], b[i]) THEN ListNe(a, b, i + 1)
    ELSE "differ"

Verdict(kind, msg) == [kind |-> kind, msg |-> msg]

\* for out_line, exp_line in zip(...): lines 161-172
RECURSIVE CompareLines(_, _, _)
CompareLines(lo, le, i) ==
    IF i > Len(lo) THEN Verdict("ok", "")
    ELSE IF lo[i] = le[i] THEN CompareLines(lo, le, i + 1)
    ELSE LET o == ConvertLineToDecimals(lo[i])
             e == ConvertLineToDecimals(le[i])
         IN  IF ~o.ok THEN Verdict("fail", "output line is not all decimals")
             ELSE IF ~e.ok THEN Verdict("fail", "expect output line is not all decimals")
             ELSE LET c == ListNe(o.decs, e.decs, 1) IN
                  CASE c = "raise" ->
                          Verdict("raise", "[InvalidOperation] " \o ExcText("InvalidOperation"))
                    [] c = "differ" -> Verdict("fail", "output line decimals mismatch")
                    [] OTHER -> CompareLines(lo, le, i + 1)

\* _unsafe_execute_stdio after the call: lines 154-174.  kind "raise": the
\* exception leaves the function (it is raised outside its try).
StdioCompare(out, exp) ==
    LET lo == GetStrippedLines(out)
        le == GetStrippedLines(exp)
    IN  IF Len(lo) # Len(le) THEN Verdict("fail", "output line count mismatch")
        ELSE CompareLines(lo, le, 1)

\* Texts the comparator is run on.
RECURSIVE TextsUpTo(_)
TextsUpTo(n) ==
    IF n = 0 THEN {""}
    ELSE LET S == TextsUpTo(n - 1) IN S \cup {s \o c : s \in S, c \in {"1", "0", ".", " ", "\n"}}

ExpTexts == {"1.0", "1.00", "1", "1.01", "1\n0", "1 0", "x", "sNaN", "NaN", "1e1"}
OutTexts == TextsUpTo(MaxCmpLen) \cup ExpTexts

childVarsAll == <<childVars, sol, userCall, performed, userFiles, ran>>
requestVars == <<parentVars, childVarsAll, samplerVars, fileVars, kcalls, mock>>

\* the comparator is run on (captured output, expected output)
CmpRun ==
    /\ cmp.phase = "input"
    /\ cmp' = [cmp EXCEPT !.phase = "compared", !.res = StdioCompare(cmp.out, cmp.exp)]
    /\ UNCHANGED requestVars

\* s with whitespace ws put in front of it or behind it
Padded(s, front, ws) == IF front THEN ws \o s ELSE s \o ws

\* the comparator is run again after whitespace was put around one side
CmpPad(onOut, front, ws) ==
    /\ cmp.phase = "compared"
    /\ LET o == IF onOut THEN Padded(cmp.out, front, ws) ELSE cmp.out
           e == IF onOut THEN cmp.exp ELSE Padded(cmp.exp, front, ws)
       IN cmp' = [phase |-> "padded", out |-> o, exp |-> e, res |-> StdioCompare(o, e),
                  out0 |-> cmp.out, exp0 |-> cmp.exp, res0 |-> cmp.res]
    /\ UNCHANGED requestVars

\* Index of the first newline of s that has content before it and after it.
ContentBreak(s) ==
    IF \E i \in 1..Len(s) : /\ Char(s, i) = "\n"
                            /\ Strip(SubSeq(s, 1, i - 1)) # ""
                            /\ Strip(SubSeq(s, i + 1, Len(s))) # ""
    THEN CHOOSE i \in 1..Len(s) : /\ Char(s, i) = "\n"
                                  /\ Strip(SubSeq(s, 1, i - 1)) # ""
                                  /\ Strip(SubSeq(s, i + 1, Len(s))) # ""
    ELSE 0

WithBlankLine(s, blank) ==
    LET i == ContentBreak(s) IN SubSeq(s, 1, i) \o blank \o SubSeq(s, i + 1, Len(s))

\* the comparator is run again after a blank line was put between two content
\* lines of one side
CmpInsertBlank(onOut, blank) ==
    /\ cmp.phase = "compared"
    /\ ContentBreak(IF onOut THEN cmp.out ELSE cmp.exp) # 0
    /\ LET o == IF onOut THEN WithBlankLine(cmp.out, blank) ELSE cmp.out
           e == IF onOut THEN cmp.exp ELSE WithBlankLine(cmp.exp, blank)
       IN cmp' = [phase |-> "blank", out |-> o, exp |-> e, res |-> StdioCompare(o, e),
                  out0 |-> cmp.out, exp0 |-> cmp.exp, res0 |-> cmp.res]
    /\ UNCHANGED requestVars

-----------------------------------------------------------------------------
(* Stdin mock of the stdio test cases: exec_py_test.py MockStdinWithBuffer, *)
(* MockBuffer and call_method.  Inside call_method sys.stdin is the         *)
(* MockStdinWithBuffer object, and the methods that user code reaches are   *)
(* the ones of its class.  Texts are ASCII, so inputs.encode("utf-8") has   *)
(* the same characters; a bytes value is told from a str by its kind.       *)

PyStr(t) == [kind |-> "str", s |-> t]
PyBytes(t) == [kind |-> "bytes", s |-> t]

\* StringIO.readline() at position pos (characters already read): the text up
\* to and including the next newline, or the rest; "" at the end.
StringIOReadline(inputs, pos) ==
    LET rest == SubSeq(inputs, pos + 1, Len(inputs))
        i == IndexIn(rest, {"\n"})
    IN  IF i = 0 THEN rest ELSE SubSeq(rest, 1, i)

\* MockBuffer.readline: self.inputs.split(b"\n")[0] + b"\n"

\* sys.stdin.readline() -> self._stringio.readline()
MockReadline ==
    /\ mock.phase = "patched" /\ mock.ncalls < MaxReads
    /\ LET r == StringIOReadline(mock.inputs, mock.pos) IN
        mock' = [mock EXCEPT !.readline = Append(@, PyStr(r)),
                             !.pos = @ + Len(r), !.ncalls = @ + 1]
    /\ UNCHANGED <<parentVars, childVarsAll, samplerVars, fileVars, kcalls, cmp>>

\* sys.stdin.read() -> self.inputs
MockRead ==
    /\ mock.phase = "patched" /\ mock.ncalls < MaxReads
    /\ mock' = [mock EXCEPT !.read = Append(@, PyStr(mock.inputs)), !.ncalls = @ + 1]
    /\ UNCHANGED <<parentVars, childVarsAll, samplerVars, fileVars, kcalls, cmp>>

\* sys.stdin.readlines() -> self.inputs.split("\n")
MockReadlines ==
    /\ mock.phase = "patched" /\ mock.ncalls < MaxReads
    /\ mock' = [mock EXCEPT !.readlines = Append(@, SplitLines(mock.inputs)),
                            !.ncalls = @ + 1]
    /\ UNCHANGED <<parentVars, childVarsAll, samplerVars, fileVars, kcalls, cmp>>

\* sys.stdin.buffer.readline(): the first line again on every call
MockBufferReadline ==
    /\ mock.phase = "patched" /\ mock.ncalls < MaxReads
    /\ mock' = [mock EXCEPT
                  !.buffer_readline = Append(@, PyBytes(SplitLines(mock.inputs)[1] \o "\n")),
                  !.ncalls = @ + 1]
    /\ UNCHANGED <<parentVars, childVarsAll, samplerVars, fileVars, kcalls, cmp>>

\* sys.stdin.buffer.read() -> self.inputs (bytes)
MockBufferRead ==
    /\ mock.phase = "patched" /\ mock.ncalls < MaxReads
    /\ mock' = [mock EXCEPT !.buffer_read = Append(@, PyBytes(mock.inputs)),
                            !.ncalls = @ + 1]
    /\ UNCHANGED <<parentVars, childVarsAll, samplerVars, fileVars, kcalls, cmp>>

\* Input texts of a test case: all texts of at most n characters.
RECURSIVE StdinTextsUpTo(_)
StdinTextsUpTo(n) ==
    IF n = 0 THEN {""}
    ELSE LET S == StdinTextsUpTo(n - 1) IN S \cup {t \o c : t \in S, c \in {"a", "b", "\n"}}

-----------------------------------------------------------------------------
(* Test cases of the test child: exec_py_test.py _unsafe_execute lines      *)
(* 115-122, _unsafe_execute_fn_call, _unsafe_execute_stdio, call_method.    *)

\* Python values: what a solution returns and what json.loads reads from the
\* expected output; "text" is the text a stdio solution printed or is
\* expected to print.
PyInt(n) == [kind |-> "int", n |-> n, s |-> "", items |-> <<>>]
PyList(xs) == [kind |-> "list", n |-> 0, s |-> "", items |-> xs]
PyTuple(xs) == [kind |-> "tuple", n |-> 0, s |-> "", items |-> xs]
PyText(t) == [kind |-> "text", n |-> 0, s |-> t, items |-> <<>>]

\* str() of a value, as an f-string formats it
RECURSIVE Repr(_)
RECURSIVE ReprItems(_)
Repr(v) ==
    CASE v.kind = "int" -> IntStr(v.n)
      [] v.kind = "list" -> "[" \o ReprItems(v.items) \o "]"
      [] v.kind = "tuple" ->
            "(" \o ReprItems(v.items) \o (IF Len(v.items) = 1 THEN "," ELSE "") \o ")"
      [] OTHER -> v.s
ReprItems(xs) ==
    IF xs = <<>> THEN ""
    ELSE IF Len(xs) = 1 THEN Repr(xs[1])
    ELSE Repr(xs[1]) \o ", " \o ReprItems(Tail(xs))

\* _unsafe_execute_fn_call lines 132-140, after fn(*args) returned:
\* if isinstance(outputs, tuple): outputs = list(outputs).  Python's
\* != on these values is structural: a list never equals a tuple.
FnCallVerdict(got, exp) ==
    LET outputs == IF got.kind = "tuple" THEN PyList(got.items) ELSE got IN
    IF outputs # exp
    THEN Verdict("fail", "output " \o Repr(outputs) \o " != expect " \o Repr(exp))
    ELSE Verdict("ok", "")

\* (ok, msg) of one test case.  o: how the call of the user function ends;
\* got: the value it returned, or the text it had printed when it ended.
\* _unsafe_execute_fn_call catches Exception around the call and the
\* comparison.  call_method swallows SystemExit, _unsafe_execute_stdio catches
\* Exception around the call only and compares what was captured.  kind
\* "escape": the throwable is not caught here; kind "raise": the comparison
\* raised outside the try.
\* Variant whose stdio mode lets SystemExit through like function-call mode.
CaseVerdictExitEscapes(fn_mode, o, got, exp) ==
    IF fn_mode
    THEN CASE o = "return" -> FnCallVerdict(got, exp)
           [] o # "return" /\ IsException(o) -> Verdict("fail", "[" \o o \o "] " \o ExcText(o))
           [] OTHER -> Verdict("escape", "")
    ELSE CASE o = "return" -> StdioCompare(got.s, exp.s)
           [] o # "return" /\ IsException(o) -> Verdict("fail", "[" \o o \o "] " \o ExcText(o))
           [] OTHER -> Verdict("escape", "")

CaseVerdict(fn_mode, o, got, exp) ==
    IF fn_mode
    THEN CASE o = "return" -> FnCallVerdict(got, exp)
           [] o # "return" /\ IsException(o) -> Verdict("fail", "[" \o o \o "] " \o ExcText(o))
           [] OTHER -> Verdict("escape", "")
    ELSE CASE o \in {"return", "SystemExit"} -> StdioCompare(got.s, exp.s)
           [] o # "return" /\ IsException(o) -> Verdict("fail", "[" \o o \o "] " \o ExcText(o))
           [] OTHER -> Verdict("escape", "")

\* for single_input, single_output in zip(inputs, expect_outputs): ...
\* if not ok: return False, f"failed: {msg}"; after the loop: return True, "".
\* An exception of the comparison leaves _unsafe_execute and `except Exception`
\* of _subprocess_target makes it the message "failed: [X] ...".
ChildCase(o, got, exp) ==
    /\ child = "running" /\ runner = "py_test" /\ cpc = "t_case"
    /\ (got.kind = "text") = ~sample.test.fn_mode
    /\ (exp.kind = "text") = ~sample.test.fn_mode
    /\ IF caseIdx > sample.test.ninputs
       THEN /\ o = "return"
            /\ cres' = Result(TRUE, "")
            /\ cpc' = "c_put"
            /\ UNCHANGED <<caseIdx, ran>>
       ELSE LET v == CaseVerdict(sample.test.fn_mode, o, got, exp) IN
            /\ ran' = Append(ran, [o |-> o, got |-> got, exp |-> exp,
                                    kind |-> v.kind, msg |-> v.msg])
            /\ CASE v.kind = "ok" ->
                        /\ caseIdx' = caseIdx + 1
                        /\ UNCHANGED <<cres, cpc>>
                 [] v.kind \in {"fail", "raise"} ->
                        /\ cres' = Result(FALSE, "failed: " \o v.msg)
                        /\ cpc' = "c_put"
                        /\ UNCHANGED caseIdx
                 [] v.kind = "escape" ->
                        /\ cpc' = "c_exit"
                        /\ UNCHANGED <<cres, caseIdx>>
    /\ UNCHANGED <<parentVars, child, handle, guard, compiled, q, qclosed, written,
                   tempDir, spawned, samplerVars, fileVars>>
    /\ sol' = NoSol
    /\ UNCHANGED <<userCall, performed, kcalls, cmp, userFiles, mock>>

\* Values and texts of the test cases of a request.
CaseReturns == {PyInt(3), PyTuple(<<PyInt(1), PyInt(2)>>), PyText("1\n")}
CaseExpects == {PyInt(3), PyList(<<PyInt(1), PyInt(2)>>), PyText("1"), PyText("1\n2")}

-----------------------------------------------------------------------------

Next ==
    \/ \E s \in Samples : Evaluate(s)
    \/ \E t \in {0, MaxTimeout} : DirectCall(t)
    \/ Respond
    \/ PySpawn
    \/ PyResult
    \/ PyTimeout
    \/ PyWaitError
    \/ PyStop
    \/ PySlept
    \/ \E gone \in BOOLEAN : KillTerminate(gone)
    \/ \E delivered, gone \in BOOLEAN : KillHard(delivered, gone)
    \/ KillClose
    \/ \E closeFails \in BOOLEAN : PyReturn(closeFails)
    \/ \E made \in BOOLEAN : ChildTempdir(made)
    \/ ChildGuard
    \/ \E o \in ExecOutcomes, prim \in CalledPrims \cup {""} : ChildExec(o, prim, FALSE)
    \/ \E o \in ExecOutcomes : ChildExec(o, "", TRUE)
    \/ ChildRestore
    \/ ChildCleanup
    \/ ChildPut
    \/ ChildExit
    \/ ChildDies
    \/ ChildTestStart
    \/ \E o \in ExecOutcomes, sh \in SolShapes(TRUE) \cup SolShapes(FALSE) :
            ChildCompile(o, sh)
    \/ ChildGetFn
    \/ \E o \in {"return"} \cup Throwables, got \in CaseReturns, exp \in CaseExpects : ChildCase(o, got, exp)
    \/ \E how \in {"ok", "nocreate", "nowrite"} : XTmp(how)
    \/ \E started \in BOOLEAN : XSpawn(started)
    \/ \E e \in Exits : ExtExit(e)
    \/ XDone
    \/ \E lost \in BOOLEAN : XTimeout(lost)
    \/ XKilled
    \/ TsStop
    \/ TsSlept
    \/ XFinally
    \/ \E failInit \in BOOLEAN, fail \in {"no", "cpu"} : SamplerBegin(failInit, fail, 30, 10)
    \/ \E fail \in {"no", "cpu"} : SamplerPoll(fail, 30, 10)

Spec == Init /\ [][Next]_vars

\* The runners that have a sampler, on one request each, with every reading
\* the process can report and every query that can fail.
SamplerSamples ==
    {[source |-> "human-eval", lang |-> l, timeout |-> NoTimeout, test |-> NoTest] :
        l \in {"python", "typescript"}}

NextSampler ==
    \/ \E s \in SamplerSamples : Evaluate(s)
    \/ Respond
    \/ PySpawn
    \/ PyResult
    \/ PyTimeout
    \/ PyWaitError
    \/ PyStop
    \/ PySlept
    \/ \E gone \in BOOLEAN : KillTerminate(gone)
    \/ \E delivered, gone \in BOOLEAN : KillHard(delivered, gone)
    \/ KillClose
    \/ \E closeFails \in BOOLEAN : PyReturn(closeFails)
    \/ \E made \in BOOLEAN : ChildTempdir(made)
    \/ ChildGuard
    \/ \E o \in ExecOutcomes : ChildExec(o, "", FALSE)
    \/ ChildRestore
    \/ ChildCleanup
    \/ ChildPut
    \/ ChildExit
    \/ ChildDies
    \/ \E how \in {"ok", "nocreate", "nowrite"} : XTmp(how)
    \/ \E started \in BOOLEAN : XSpawn(started)
    \/ \E e \in Exits : ExtExit(e)
    \/ XDone
    \/ \E lost \in BOOLEAN : XTimeout(lost)
    \/ XKilled
    \/ TsStop
    \/ TsSlept
    \/ XFinally
    \/ \E failInit \in BOOLEAN, fail \in SamplerFails, cpu \in CpuReadings,
          mem \in MemReadings : SamplerBegin(failInit, fail, cpu, mem)
    \/ \E fail \in SamplerFails, cpu \in CpuReadings, mem \in MemReadings :
            SamplerPoll(fail, cpu, mem)

SpecSampler == Init /\ [][NextSampler]_vars

\* The same requests with fewer readings, and with progress: the event loop
\* runs every task that is ready and every timer that is due, and the
\* operating system ends a killed process.
NextSamplerLive ==
    \/ \E s \in SamplerSamples : Evaluate(s)
    \/ Respond
    \/ PySpawn
    \/ PyResult
    \/ PyTimeout
    \/ PyWaitError
    \/ PyStop
    \/ PySlept
    \/ \E gone \in BOOLEAN : KillTerminate(gone)
    \/ \E delivered, gone \in BOOLEAN : KillHard(delivered, gone)
    \/ KillClose
    \/ \E closeFails \in BOOLEAN : PyReturn(closeFails)
    \/ \E made \in BOOLEAN : ChildTempdir(made)
    \/ ChildGuard
    \/ \E o \in ExecOutcomes : ChildExec(o, "", FALSE)
    \/ ChildRestore
    \/ ChildCleanup
    \/ ChildPut
    \/ ChildExit
    \/ ChildDies
    \/ \E how \in {"ok", "nocreate", "nowrite"} : XTmp(how)
    \/ \E started \in BOOLEAN : XSpawn(started)
    \/ \E e \in Exits : ExtExit(e)
    \/ XDone
    \/ \E lost \in BOOLEAN : XTimeout(lost)
    \/ XKilled
    \/ TsStop
    \/ TsSlept
    \/ XFinally
    \/ \E failInit \in BOOLEAN, fail \in SamplerFails, cpu \in {30, 80} :
            SamplerBegin(failInit, fail, cpu, 40)
    \/ \E fail \in SamplerFails, cpu \in {30, 80} : SamplerPoll(fail, cpu, 40)

SpecSamplerLive == Init /\ [][NextSamplerLive]_vars /\ WF_vars(NextSamplerLive)

\* The comparator alone, on every pair of texts.
InitCmp ==
    /\ Quiet
    /\ pc = "idle"
    /\ via = "none"
    /\ child = "none"
    /\ handle = "none"
    /\ cpc = "none"
    /\ \E o \in OutTexts, e \in ExpTexts :
            cmp = [NoCmp EXCEPT !.phase = "input", !.out = o, !.exp = e]
    /\ mock = NoMock

NextCmp ==
    \/ CmpRun
    \/ \E onOut, front \in BOOLEAN, ws \in {" ", "\n", " \n\n "} : CmpPad(onOut, front, ws)
    \/ \E onOut \in BOOLEAN, blank \in {"\n", " \n"} : CmpInsertBlank(onOut, blank)

SpecCmp == InitCmp /\ [][NextCmp]_vars

\* kill_proc alone, called up to MaxKillCalls times on one handle: no process
\* (p is None), a process that runs on, one that is about to exit by itself,
\* one that has exited.
InitKill ==
    /\ Quiet
    /\ pc = "k_idle"
    /\ via = "kill_proc"
    /\ \E h \in {<<"none", "none", "none">>, <<"running", "open", "c_hang">>,
                  <<"running", "open", "c_exit">>, <<"zombie", "open", "c_done">>} :
            child = h[1] /\ handle = h[2] /\ cpc = h[3]
    /\ cmp = NoCmp
    /\ mock = NoMock

NextKill ==
    \/ KillCall
    \/ \E gone \in BOOLEAN : KillTerminate(gone)
    \/ \E delivered, gone \in BOOLEAN : KillHard(delivered, gone)
    \/ KillClose
    \/ ChildExit
    \/ ChildDies

SpecKill == InitKill /\ [][NextKill]_vars

\* The test child alone, from the moment execute_test has started it for a
\* livecodebench request with as many inputs as outputs, on more values and
\* texts than a whole request is followed with.
InitCase ==
    /\ \E n \in 0..MaxCases, f \in BOOLEAN, s \in Samples :
          /\ s = [source |-> "livecodebench", lang |-> "python", timeout |-> NoTimeout,
                  test |-> [present |-> TRUE, ninputs |-> n, noutputs |-> n,
                            fn_mode |-> f]]
          /\ sample = s
          /\ timeout = Dispatch(s).timeout
          /\ chosen = [runner |-> Dispatch(s).fn, timeout |-> Dispatch(s).timeout]
          /\ runner = Dispatch(s).fn
    /\ via = "dispatcher"
    /\ pc = "py_wait"
    /\ child = "running" /\ handle = "open" /\ cpc = "c_start"
    /\ spawned = 1
    /\ stats = 1 /\ samplerStats = 1 /\ spc = "s_init"
    /\ stopEvent = FALSE /\ nsamples = 0 /\ committed = FALSE
    /\ cpuSamples = <<>> /\ memSamples = <<>> /\ statsVal = ZeroStats
    /\ guard = [installs |-> 0, restored |-> FALSE]
    /\ compiled = FALSE /\ caseIdx = 0 /\ cres = Result(FALSE, "")
    /\ q = <<>> /\ qclosed = FALSE /\ written = 0
    /\ tempDir = FALSE /\ tmpFile = FALSE /\ filePath = FALSE /\ exitInfo = NoExit
    /\ reason = "" /\ waitOutcome = "none" /\ ret = NoRet /\ response = NoResponse
    /\ raised = "" /\ signals = <<>>
    /\ sol = NoSol /\ userCall = NoCall /\ performed = {} /\ kcalls = 0
    /\ cmp = NoCmp /\ userFiles = FALSE /\ ran = <<>> /\ mock = NoMock

NextCase ==
    \/ ChildTestStart
    \/ \E o \in ExecOutcomes, sh \in SolShapes(TRUE) \cup SolShapes(FALSE) :
            ChildCompile(o, sh)
    \/ ChildGetFn
    \/ \E o \in {"return"} \cup Throwables,
          got \in CaseReturns \cup
                  {PyInt(4), PyList(<<PyInt(1), PyInt(2)>>), PyTuple(<<PyInt(3)>>),
                   PyTuple(<<PyInt(1), PyTuple(<<PyInt(2)>>)>>),
                   PyText("2\n"), PyText(" 1.0 \n"), PyText(""), PyText("1\n2\n")},
          exp \in CaseExpects \cup
                  {PyList(<<PyInt(3)>>), PyList(<<PyInt(1), PyList(<<PyInt(2)>>)>>),
                   PyText("sNaN")} :
            ChildCase(o, got, exp)
    \/ ChildPut
    \/ ChildExit

SpecCase == InitCase /\ [][NextCase]_vars

\* The stdin mock alone: call_method has built it for an input text and the
\* user code calls its methods.
InitStdin ==
    /\ Quiet
    /\ pc = "idle"
    /\ via = "none"
    /\ child = "none"
    /\ handle = "none"
    /\ cpc = "none"
    /\ cmp = NoCmp
    /\ \E t \in StdinTextsUpTo(MaxStdinLen) :
            mock = [NoMock EXCEPT !.phase = "patched", !.inputs = t]

NextStdin ==
    \/ MockReadline
    \/ MockRead
    \/ MockReadlines
    \/ MockBufferReadline
    \/ MockBufferRead

SpecStdin == InitStdin /\ [][NextStdin]_vars

-----------------------------------------------------------------------------
(* Properties. *)

PyRunners == {"py_code", "py_test"}

EndsWith(s, suffix) ==
    Len(s) >= Len(suffix) /\ SubSeq(s, Len(s) - Len(suffix) + 1, Len(s)) = suffix

\* C1: when a runner returns its verdict, the child it spawned has terminated
\* and has been reaped, on every outcome, also when the child does not exit
\* within the killer's 100 ms windows.
C1_ChildReapedAtReturn ==
    (pc = "returned") => child \in {"none", "reaped"}

\* C2: in the Python code runner the child's temporary directory no longer
\* exists when the runner returns, on every exit path including a timeout in
\* which the parent's signal ends the child while user code is running.
\* (Stated for the returns at which the child has ended, so that it does not
\* rest on C1.)
C2_TempDirGoneAtReturn ==
    (pc = "returned" /\ runner = "py_code" /\ child = "reaped") => ~tempDir

\* C3: in the JavaScript and TypeScript runners the temp source file is removed
\* before the runner returns, on every path (exit 0, non-zero exit, timeout,
\* exception while writing, spawning or communicating).
C3_TmpFileRemoved ==
    (runner \in {"js", "ts"} /\ pc \in {"returned", "responded", "raised"}) => ~tmpFile

\* C3 witness: a JS/TS run that created its file, timed out, and has returned.
C3_Witness ==
    /\ pc = "returned" /\ runner \in {"js", "ts"}
    /\ filePath /\ ~tmpFile
    /\ ret.msg = "failed: timeout"

\* C4: a Python child that ends by itself has written exactly one (ok, msg)
\* message, whatever user code threw (SystemExit and KeyboardInterrupt
\* included); it never writes two.
C4_ExactlyOneMessage ==
    /\ written <= 1
    /\ (runner \in PyRunners /\ cpc = "c_done") => written = 1

\* C5: in both Python runners, if the wait on the result channel times out after
\* t seconds while the child is alive, the runner returns status false with msg
\* exactly "failed: subprocess timeout: <t>s" ("...: 3.0s" for 3.0 s) and the
\* stats object the sampler was updating.
C5_TimeoutVerdict ==
    (pc = "returned" /\ runner \in PyRunners /\ waitOutcome = "timeout_alive") =>
        /\ ret.ok = FALSE
        /\ ret.msg = "failed: subprocess timeout: " \o FloatStr(timeout) \o "s"
        /\ (timeout = 30) => ret.msg = "failed: subprocess timeout: 3.0s"
        /\ (timeout = 0) => ret.msg = "failed: subprocess timeout: 0.0s"
        /\ ret.stats = samplerStats /\ samplerStats # NoStats

\* C5 witness: the default 3.0 s timeout tripped on a live child, runner returned.
C5_Witness ==
    /\ pc = "returned" /\ runner = "py_code" /\ waitOutcome = "timeout_alive"
    /\ timeout = 30
    /\ ret.msg = "failed: subprocess timeout: 3.0s"

Unsupported(s) ==
    \/ s.source \in {"human-eval", "mbpp"}
         /\ s.lang \notin {"python", "javascript", "typescript"}
    \/ s.source = "livecodebench" /\ s.lang # "python"
    \/ s.source \notin {"human-eval", "mbpp", "livecodebench"}

\* C6: for every unsupported (source, lang) the dispatcher returns a normal
\* response with status false and a reason naming the language or source; it
\* raises nothing and spawns no child.
C6_UnsupportedRefused ==
    (via = "dispatcher" /\ Unsupported(sample)) =>
        /\ raised = ""
        /\ spawned = 0
        /\ response.set /\ ~response.status
        /\ EndsWith(response.msg, sample.lang) \/ EndsWith(response.msg, sample.source)

\* C7: for human-eval / mbpp with lang javascript the dispatcher's call of the
\* JavaScript runner binds (code, timeout, memory_limit), the runner returns a
\* triple, and the response carries the runner's verdict.
C7_JavaScriptDispatch ==
    (via = "dispatcher" /\ sample.source \in {"human-eval", "mbpp"}
       /\ sample.lang = "javascript") =>
        /\ raised = ""
        /\ pc \notin {"idle", "raised"}
        /\ ret.set => ret.arity = 3
        /\ response.set => (response.status = ret.ok /\ response.msg = ret.msg)

\* The table of section 4.7, written out.
C8_TableTimeout(s) ==
    IF s.timeout # NoTimeout THEN s.timeout
    ELSE IF s.source = "livecodebench"
         THEN (IF s.test.present THEN 60 + 20 * s.test.ninputs ELSE 30)
         ELSE (IF s.lang = "typescript" THEN 50 ELSE 30)

\* C8: the timeout passed to the selected runner is sample.timeout whenever it
\* is supplied (0 included), otherwise the table default; the python test
\* runner is selected exactly when source is livecodebench, lang is python and
\* a test is present; every supported combination selects a runner.
C8_TimeoutAndRunner ==
    (via = "dispatcher") =>
        /\ (chosen.runner # "none") = ~Unsupported(sample)
        /\ (chosen.runner # "none") =>
              /\ chosen.timeout = C8_TableTimeout(sample)
              /\ (chosen.runner = "py_test") =
                    (sample.source = "livecodebench" /\ sample.lang = "python"
                       /\ sample.test.present)
        /\ (runner # "none") => (runner = chosen.runner /\ timeout = chosen.timeout)

\* C8 witness: a supplied timeout of 0 is passed on to the python test runner.
C8_Witness ==
    /\ via = "dispatcher" /\ sample.timeout = 0 /\ sample.test.present
    /\ runner = "py_test" /\ timeout = 0 /\ pc = "returned"

\* C9: every response with status false has a msg that begins with "failed: "
\* or "failed [exit <code>]: ", dispatcher refusals included, and never begins
\* with the prefix twice.
C9_FailedPrefix ==
    (response.set /\ ~response.status) =>
        /\ StartsWith(response.msg, "failed: ") \/ StartsWith(response.msg, "failed [exit ")
        /\ ~StartsWith(response.msg, "failed: failed: ")

\* C10: in the Python test runner, len(inputs) # len(outputs) yields
\* (false, "failed: number of inputs and outputs mismatch") without a child
\* being spawned, without user code being compiled, without the guard.
C10_MismatchWithoutSpawn ==
    (runner = "py_test" /\ sample.test.ninputs # sample.test.noutputs) =>
        /\ spawned = 0
        /\ ~compiled
        /\ guard.installs = 0
        /\ (pc = "returned") =>
              (ret.ok = FALSE /\ ret.msg = "failed: number of inputs and outputs mismatch")

\* C11: in the test runner, in both modes, a submission that fails to compile
\* or load (a syntax error, or an exception raised while the module body runs)
\* gets the verdict (false, "failed: compile error") exactly.
C11_CompileErrorVerdict ==
    (runner = "py_test" /\ sol.loaded = "exec_failed") =>
        (cpc = "c_put" /\ cres = Result(FALSE, "failed: compile error"))

\* The holder of section 4.5: the Solution instance if the module exposes a
\* class Solution, else the module; TRUE iff it has the attribute fn_name.
C12_HolderHasFn(so) == IF so.cls THEN so.clsFn ELSE so.modFn

\* C12: in function-call mode the target is the method fn_name of a Solution
\* instance if the module exposes a top-level class Solution, else the module
\* attribute fn_name; whenever that holder lacks fn_name (a source that only
\* contains the text "class Solution" included) the verdict is exactly
\* (false, "failed: no function defined").
C12_NoFunctionDefined ==
    (runner = "py_test" /\ sample.test.fn_mode
       /\ sol.loaded \in {"instance", "module", "no_class"} /\ cpc # "t_getfn") =>
        IF C12_HolderHasFn(sol)
        THEN cpc = "t_case"
        ELSE cpc = "c_put" /\ cres = Result(FALSE, "failed: no function defined")

\* The line rule of section 4.6 for one pair of stripped lines.
C13_LinePasses(lo, le) ==
    \/ lo = le
    \/ /\ ConvertLineToDecimals(lo).ok /\ ConvertLineToDecimals(le).ok
       /\ LET a == ConvertLineToDecimals(lo).decs
              b == ConvertLineToDecimals(le).decs
          IN  /\ Len(a) = Len(b)
              /\ \A i \in 1..Len(a) :
                    /\ a[i].kind # "snan" /\ b[i].kind # "snan"
                    /\ DecimalEq(a[i], b[i])

C13_LineMessage(lo, le) ==
    IF ~ConvertLineToDecimals(lo).ok THEN "output line is not all decimals"
    ELSE IF ~ConvertLineToDecimals(le).ok THEN "expect output line is not all decimals"
    ELSE "output line decimals mismatch"

\* C13: with equal line counts, a line pair passes iff the lines are byte-equal
\* or both parse as whitespace-separated decimals that are equal element-wise
\* as decimals ("1.0" vs "1.00" and "1.0" vs "1" pass, "1.0" vs "1.01" fails);
\* the first failing pair gives the message: produced line does not parse,
\* else expected line does not parse, else the lists differ.
C13_LineRule ==
    (cmp.phase = "compared"
       /\ Len(GetStrippedLines(cmp.out)) = Len(GetStrippedLines(cmp.exp))) =>
        LET lo == GetStrippedLines(cmp.out)
            le == GetStrippedLines(cmp.exp)
            bad == {i \in 1..Len(lo) : ~C13_LinePasses(lo[i], le[i])}
        IN  /\ (bad = {}) => cmp.res = Verdict("ok", "")
            /\ (bad # {}) =>
                  LET i == CHOOSE i \in bad : \A j \in bad : i <= j IN
                  cmp.res = Verdict("fail", C13_LineMessage(lo[i], le[i]))
            /\ (cmp.out = "1.0" /\ cmp.exp \in {"1.00", "1"}) => cmp.res.kind = "ok"
            /\ (cmp.out = "1.0" /\ cmp.exp = "1.01") =>
                  cmp.res = Verdict("fail", "output line decimals mismatch")

\* C14: equal texts pass; whitespace put in front of or behind either side
\* does not change the verdict; a blank line put between two content lines of
\* one side, extra to the lines the other side has, always fails with
\* "output line count mismatch".
C14_WhitespaceLaw ==
    /\ (cmp.phase = "compared" /\ cmp.out = cmp.exp) => cmp.res = Verdict("ok", "")
    /\ (cmp.phase = "padded") => cmp.res = cmp.res0
    /\ (cmp.phase = "blank" /\ cmp.res0.msg # "output line count mismatch") =>
            cmp.res = Verdict("fail", "output line count mismatch")

\* C14 witness: two equal two-line texts passed, and with a blank line put
\* between the two content lines of one side the comparison failed.
C14_Witness ==
    /\ cmp.phase = "blank" /\ cmp.out0 = "1\n0" /\ cmp.exp0 = "1\n0"
    /\ cmp.res0 = Verdict("ok", "")
    /\ cmp.res = Verdict("fail", "output line count mismatch")

\* C15: kill_proc never raises and is idempotent, whatever the state of the
\* handle (running, exited, killed and closed by an earlier kill_proc, signal
\* failing): a second call returns normally.
C15_KillProcNeverRaises ==
    (via = "kill_proc") => (raised = "" /\ pc # "raised")

\* C16: a JS/TS run whose spawn succeeded returns exactly one of three
\* verdicts: exit code 0 gives (true, trimmed stdout); exit code c # 0 gives
\* (false, "failed [exit c]: <trimmed stderr>"); on timeout the child is
\* killed and waited for and the verdict is (false, "failed: timeout").
C16_OutcomeMapping ==
    (runner \in {"js", "ts"} /\ pc = "returned" /\ spawned = 1) =>
        \/ /\ cpc = "c_done" /\ exitInfo.code = 0
           /\ ret.ok /\ ret.msg = Strip(exitInfo.stdout)
        \/ /\ cpc = "c_done" /\ exitInfo.code # 0
           /\ ~ret.ok
           /\ ret.msg = "failed [exit " \o IntStr(exitInfo.code) \o "]: "
                            \o Strip(exitInfo.stderr)
        \/ /\ ~ret.ok /\ ret.msg = "failed: timeout"
           /\ child = "reaped"

C17_WitnessNoSample ==
    /\ pc = "returned" /\ ret.stats = samplerStats /\ samplerStats # NoStats
    /\ spc = "s_done" /\ ~committed /\ statsVal = ZeroStats

\* C18: in the Python code runner, user code that calls a neutralized
\* primitive (os.system, os.kill, os.fork, shutil.rmtree, subprocess.Popen,
\* exit, quit) gets a no-op callable, never None: the call returns without
\* performing the operation and without raising, no subprocess is launched,
\* and if nothing else fails the verdict is (true, "").
C18_NeutralizedCall ==
    (runner = "py_code" /\ userCall.prim # "") =>
        /\ cpc = "c_restore"
        /\ Attr([guard EXCEPT !.restored = FALSE], userCall.prim) = "noop"
        /\ performed = {}
        /\ spawned = 1
        /\ cres = CodeVerdict(userCall.then)
        /\ (userCall.then = "pass") => cres = Result(TRUE, "")

\* C18 witness: user code called os.system, nothing else failed, and the child
\* holds the verdict (true, "").
C18_Witness ==
    /\ runner = "py_code" /\ cpc = "c_restore"
    /\ userCall = [prim |-> "os.system", then |-> "pass"]
    /\ cres = Result(TRUE, "") /\ performed = {}

\* C19: a Python runner reports "failed: no result from subprocess" only when
\* the child terminated without having written a message; if the child wrote
\* its message before the runner classifies the outcome the runner never
\* reports it, also when the child delivers and exits just as the timeout
\* fires.
C19_NoResultOnlyWithoutMessage ==
    (runner \in PyRunners /\ pc = "returned"
       /\ ret.msg = "failed: no result from subprocess") => written = 0

\* The orders of cleanup events section 5 allows: stop, then SIGTERM if the
\* child is alive, then SIGKILL only after a SIGTERM, then the release of the
\* handle, then the close of the channel.
C20_Orders ==
    {<<"stop">> \o t \o k \o c \o <<"qclose">> :
        t \in {<<>>, <<"SIGTERM">>}, k \in {<<>>, <<"SIGKILL">>}, c \in {<<>>, <<"close">>}}
    \ {<<"stop">> \o <<"SIGKILL">> \o c \o <<"qclose">> : c \in {<<>>, <<"close">>}}

C20_IsPrefix(a, b) == Len(a) <= Len(b) /\ SubSeq(b, 1, Len(a)) = a

\* C20: in both Python runners, on every exit path, the cleanup events occur in
\* this order: sampler stop raised, the 100 ms wait, SIGTERM if the child is
\* alive, SIGKILL only if it is still alive after that, the handle released,
\* then the channel closed; an exception raised while closing the handle or
\* the channel is swallowed and does not change the verdict.
C20_CleanupOrder ==
    (runner \in PyRunners) =>
        /\ \E o \in C20_Orders : C20_IsPrefix(signals, o)
        /\ (pc \in {"kp_term", "kp_kill", "kp_close", "py_qclose"}) =>
              (stopEvent /\ Len(signals) >= 1)
        /\ (handle = "closed") <=> (\E i \in 1..Len(signals) : signals[i] = "close")
        /\ (handle = "closed") => child = "reaped"
        /\ qclosed => signals \in C20_Orders
        /\ (pc = "returned") =>
              /\ signals \in C20_Orders
              /\ raised = ""
              /\ IF waitOutcome = "result"
                 THEN ret.ok = cres.ok /\ ret.msg = cres.msg
                 ELSE ~ret.ok /\ ret.msg = "failed: " \o reason

\* C20 witness: a timeout on a child that outlived both signals; closing the
\* handle raised, closing the channel raised, and the runner returned the
\* timeout verdict after stop, SIGTERM, SIGKILL and the attempt to close.
C20_Witness ==
    /\ runner = "py_code" /\ pc = "returned"
    /\ signals = <<"stop", "SIGTERM", "SIGKILL", "qclose">>
    /\ handle = "open" /\ ~qclosed
    /\ ret.msg = "failed: subprocess timeout: 3.0s"

-----------------------------------------------------------------------------
\* C21: in the TypeScript runner, when the timeout trips, the sampler stop is
\* raised before any termination signal is sent to the child, and the child
\* is sent a soft terminate (SIGTERM) before a hard kill (SIGKILL).
C21_TsCancellationOrder ==
    (runner = "ts") =>
        \A i \in 1..Len(signals) :
            signals[i] \in {"SIGTERM", "SIGKILL"} =>
                /\ \E j \in 1..(i - 1) : signals[j] = "stop"
                /\ signals[i] = "SIGKILL" =>
                      \E j \in 1..(i - 1) : signals[j] = "SIGTERM"

\* C22: when a runner with a sampler (Python code, Python test, TypeScript)
\* returns its stats, the sampler has already committed its averages: if at
\* least one memory sample was collected, stats.memory_mb is the mean of the
\* memory samples, and if a non-zero CPU sample was collected, stats.cpu_percent
\* is the mean of the CPU samples.
C22_AveragesCommittedAtReturn ==
    (pc = "returned" /\ runner \in {"py_code", "py_test", "ts"}
       /\ ret.stats = samplerStats /\ samplerStats # NoStats) =>
        /\ memSamples # <<>> =>
              statsVal.memory_mb.n * Len(memSamples)
                  = SeqSum(memSamples) * statsVal.memory_mb.d
        /\ cpuSamples # <<>> =>
              statsVal.cpu_percent.n * Len(cpuSamples)
                  = SeqSum(cpuSamples) * statsVal.cpu_percent.d

\* C23: the sampler task always terminates.  Once the stop signal is raised,
\* or once a query reports the child as gone or inaccessible, the sampler
\* makes at most one more pass and exits with the averages of the samples it
\* gathered written; it is no longer polling when the runner's 100 ms wait is
\* over, so none outlives its runner; and no failed query raises an exception
\* in the runner.
C23_SamplerTerminates ==
    /\ [](/\ (stopEvent /\ spc = "s_sleep") => pc \in {"py_sleep", "ts_sleep"}
          /\ (pc \in {"returned", "responded"} /\ samplerStats # NoStats) =>
                spc = "s_done"
          /\ (spc # "none") => raised = "")
    /\ [][\A fail \in SamplerFails, cpu \in CpuReadings, mem \in MemReadings :
            ((SamplerPoll(fail, cpu, mem) \/ SamplerBegin(FALSE, fail, cpu, mem))
               /\ (stopEvent \/ fail \in {"cpu", "mem"})) =>
                /\ spc' = "s_done" /\ committed'
                /\ memSamples' # <<>> =>
                      statsVal'.memory_mb.n * Len(memSamples')
                          = SeqSum(memSamples') * statsVal'.memory_mb.d
                /\ cpuSamples' # <<>> =>
                      statsVal'.cpu_percent.n * Len(cpuSamples')
                          = SeqSum(cpuSamples') * statsVal'.cpu_percent.d]_vars
    /\ (spc = "s_init") ~> (spc = "s_done")

\* C23 witness: the memory query reported the child as gone on the second
\* pass, before any stop; the sampler exited with the averages of the samples
\* it had (two CPU readings, one memory reading), and the runner returned.
C23_Witness ==
    /\ pc = "returned" /\ spc = "s_done" /\ committed
    /\ cpuSamples = <<30, 80>> /\ memSamples = <<40>>
    /\ statsVal.cpu_percent = Frac(110, 2) /\ statsVal.memory_mb = Frac(40, 1)

\* C24: in both Python children the reliability guard is installed once and
\* before any user code runs: wherever a user statement can run (the exec of
\* the code runner; the module load and every test case of the test runner)
\* every guarded primitive is neutralized, the guard is never applied a second
\* time, and it is not undone between test cases.
C24_GuardBeforeUserCode ==
    /\ guard.installs <= 1
    /\ (cpc \in {"c_exec", "t_compile", "t_getfn", "t_case"}) =>
          /\ guard = [installs |-> 1, restored |-> FALSE]
          /\ \A name \in GuardedNames : Attr(guard, name) # "original"
    /\ compiled => guard.installs = 1
    /\ performed = {}

\* C24 witness: the test child is between its first and its second test case,
\* with the guard installed once and nothing restored.
C24_Witness ==
    /\ runner = "py_test" /\ child = "running" /\ cpc = "t_case" /\ caseIdx = 2
    /\ sample.test.ninputs = 2 /\ compiled
    /\ guard = [installs |-> 1, restored |-> FALSE]

\* C25: in the Python code runner child, shutil.rmtree, os.rmdir and os.chdir
\* are put back after the user code has ended, on every path, before the
\* temp-directory cleanup runs; with exactly these three restored and every
\* other guarded primitive still neutralized, the cleanup removes the temp
\* directory, also when the user code created files in it.
C25_CleanupAfterRestore ==
    (runner = "py_code" /\ guard.installs = 1
       /\ cpc \in {"c_cleanup", "c_put", "c_exit", "c_done"}) =>
        /\ guard.restored
        /\ \A name \in GuardedNames :
              Attr(guard, name) = IF name \in RestoredNames THEN "original" ELSE "noop"
        /\ (cpc # "c_cleanup") => ~tempDir

\* A returned tuple read as a list, every other value as it is.
C26_AsList(v) == [v EXCEPT !.kind = IF @ = "tuple" THEN "list" ELSE @]

\* The test child holds the verdict of the loop over the test cases.
C26_AfterCases == runner = "py_test" /\ cpc = "c_put" /\ compiled /\ sol = NoSol

\* What C26 says apart from the pairs whose throwable nothing catches: the
\* pairs run in list order and each one before the last has passed; in
\* function-call mode a returned value passes iff, read as a list when it is
\* a tuple, it equals the expected value, and otherwise the message is
\* "output <actual> != expect <expected>"; the verdict after the loop is
\* (true, "") iff all pairs ran and passed, and otherwise "failed: " and the
\* message of the last pair run.
C26_OrderAndFirstFailure ==
    (runner = "py_test") =>
        /\ Len(ran) <= sample.test.ninputs
        /\ (cpc = "t_case") => Len(ran) = caseIdx - 1
        /\ \A i \in 1..(Len(ran) - 1) : ran[i].kind = "ok"
        /\ sample.test.fn_mode =>
              \A i \in 1..Len(ran) :
                  ran[i].o = "return" =>
                      /\ (ran[i].kind = "ok") <=> (C26_AsList(ran[i].got) = ran[i].exp)
                      /\ (ran[i].kind # "ok") =>
                            ran[i].msg = "output " \o Repr(C26_AsList(ran[i].got))
                                           \o " != expect " \o Repr(ran[i].exp)
        /\ C26_AfterCases =>
              /\ cres.ok <=> (/\ Len(ran) = sample.test.ninputs
                              /\ \A i \in 1..Len(ran) : ran[i].kind = "ok")
              /\ cres.ok => cres.msg = ""
              /\ ~cres.ok => cres.msg = "failed: " \o ran[Len(ran)].msg

\* C26: in the Python test runner the (input, expected) pairs are evaluated
\* in list order; the verdict is (true, "") iff every pair passes and
\* otherwise it is the failure of the first failing pair prefixed with
\* "failed: " (in function-call mode "failed: output <actual> != expect
\* <expected>", a returned tuple compared as a list); no pair after the first
\* failing one is run.
C26_FirstFailureVerdict ==
    /\ C26_OrderAndFirstFailure
    /\ (runner = "py_test") =>
          \A i \in 1..Len(ran) :
              (ran[i].kind # "ok") => (cpc = "c_put" /\ ~cres.ok
                                        /\ cres.msg = "failed: " \o ran[i].msg)

\* ---- C27 ----
\* A line as the claim means it: without its line terminator.
C27_Chomp(t) ==
    IF Len(t) > 0 /\ Char(t, Len(t)) = "\n" THEN SubSeq(t, 1, Len(t) - 1) ELSE t

\* The k-th call returned the k-th line of the input, as a value of this kind.
C27_InOrder(calls, kind) ==
    LET ls == SplitLines(mock.inputs) IN
    \A k \in 1..Len(calls) :
        k <= Len(ls) => calls[k].kind = kind /\ C27_Chomp(calls[k].s) = ls[k]

\* The part of C27 about the text methods: successive readline() calls return
\* the lines in order, read() the whole input, readlines() the split lines,
\* and buffer.read() the whole input as bytes.
C27_TextMethods ==
    mock.phase = "patched" =>
        /\ C27_InOrder(mock.readline, "str")
        /\ \A k \in 1..Len(mock.read) : mock.read[k] = PyStr(mock.inputs)
        /\ \A k \in 1..Len(mock.readlines) : mock.readlines[k] = SplitLines(mock.inputs)
        /\ \A k \in 1..Len(mock.buffer_read) : mock.buffer_read[k] = PyBytes(mock.inputs)

\* C27: for an input with lines l1..ln, successive stdin.readline() calls return
\* l1..ln in order, stdin.read() the entire input, stdin.readlines() the lines
\* split on newline, and stdin.buffer gives the same content as bytes:
\* successive stdin.buffer.readline() calls yield l1..ln in order and
\* stdin.buffer.read() the whole input.
C27_InputInjection ==
    /\ C27_TextMethods
    /\ mock.phase = "patched" => C27_InOrder(mock.buffer_readline, "bytes")

\* ---- C28 ----
\* A stdio test case of the test child whose user code raised SystemExit.
C28_ExitCase(i) ==
    /\ runner = "py_test" /\ ~sample.test.fn_mode
    /\ i \in 1..Len(ran) /\ ran[i].o = "SystemExit"

\* C28: in stdio mode a SystemExit raised by user code during a test case is
\* swallowed: the case is not reported as an exception, its verdict is the
\* comparison of the output printed before the exit with the expected output,
\* a passing case is followed by the next case (or by the verdict after the
\* last one), and the child is never ended by it before the verdict is
\* delivered.
C28_SystemExitSwallowed ==
    \A i \in 1..Len(ran) :
        C28_ExitCase(i) =>
            /\ ran[i].kind # "escape"
            /\ [kind |-> ran[i].kind, msg |-> ran[i].msg]
                   = StdioCompare(ran[i].got.s, ran[i].exp.s)
            /\ ran[i].msg # "[SystemExit] " \o ExcText("SystemExit")
            /\ (i = Len(ran)) =>
                  /\ cpc # "c_exit"
                  /\ (ran[i].kind = "ok") =>
                        \/ cpc = "t_case" /\ caseIdx = i + 1
                        \/ cpc = "c_put" /\ cres.ok /\ i = sample.test.ninputs
                  /\ (ran[i].kind # "ok") =>
                        cpc = "c_put" /\ cres = Result(FALSE, "failed: " \o ran[i].msg)

\* A stdio case ended by SystemExit passed on its printed output and the case
\* after it has run.
C28_Witness ==
    /\ Len(ran) >= 2
    /\ C28_ExitCase(1)
    /\ ran[1].kind = "ok"
    /\ ran[1].got.s # ""

\* The verdict after a last case that SystemExit ended is held by the child.
C28_WitnessVerdict ==
    /\ cpc = "c_put" /\ C28_ExitCase(Len(ran))
    /\ Len(ran) = sample.test.ninputs /\ cres.ok

====
